---- MODULE Spec2Model ----
(***************************************************************************)
(* Verification model of the tagtics-client feedback widget                *)
(* (src/src/index.ts): widget lifecycle (init / open / destroy), route     *)
(* visibility, the picking state machine, feedback submission and the      *)
(* redacting serializer.                                                   *)
(*                                                                         *)
(* The module-level variables of index.ts and the hooks it installs on     *)
(* window / document / history are the state.  Every handler of the code   *)
(* is an operator from a state record to a state record, so that handlers  *)
(* calling handlers (destroy -> stopPicking -> closeModal) compose as in   *)
(* the source; an uncaught exception sets `threw` and skips the rest.      *)
(***************************************************************************)
EXTENDS Integers, Sequences, FiniteSets, TLC

VARIABLES
    config,             \* let config (index.ts:13); NoConfig models null
    path,               \* window.location.pathname
    domSignal,          \* the document holds a payment signal (script / input / iframe)
    hostElement,        \* let hostElement (index.ts:14): 0 = null, else the element's identity
    hostDisplay,        \* hostElement.style.display
    hostsCreated,       \* number of host elements created so far (identity source)
    hostsAttached,      \* number of #tagtics-host elements in document.body
    isPaymentAtOpen,    \* const isPayment captured by open() (index.ts:839)
    modal,              \* modal.style.display, "null" when modal is null (index.ts:18)
    fab,                \* .tagtics-fab-container style.display
    fabOpen,            \* .tagtics-fab-container has class "open"
    repickBtn,          \* Re-pick button (and element descriptor) shown in the modal
    text,               \* textarea.value
    isPicking,          \* let isPicking (index.ts:16)
    cursor,             \* document.body.style.cursor
    blockerRef,         \* window._tagticsBlocker is set
    blockers,           \* number of blocker handler sets attached to window
    timers,             \* pending setTimeout callbacks of startPicking (index.ts:559)
    handlersRef,        \* window._tagticsHandlers is set
    pickListeners,      \* number of pick listener sets attached to document/window
    hover,              \* what the hover handler last rendered
    selectedElement,    \* let selectedElement (index.ts:19): "null" or a page element
    selectionHighlight, \* window._selectionHighlight is set
    highlightHost,      \* host whose shadow root received that box (0: none)
    highlightBoxes,     \* selection highlight boxes attached in the document
    escRef,             \* window._tagticsEscHandler is set
    escListeners,       \* number of Escape keydown listeners attached to document
    routeListener,      \* popstate listener attached to window
    history,            \* wrapper layers on history.pushState / replaceState
    saved,              \* window._tagticsOriginalPushState / ReplaceState (layer they hold, -1 = unset)
    inflight,           \* fetch calls that have not settled, with the payload each carries
    threw,              \* the last handler ended with an uncaught exception
    console,            \* diagnostics the last handler wrote to the console
    notifications,      \* toasts the last handler showed, in order
    event,              \* the DOM event the last step dispatched, and whether a
                        \* widget listener called preventDefault + stopPropagation on it
    serArg,             \* arguments of a serializeElement call: [el, depth]
    serResult,          \* what that call returned
    callArg,            \* arguments of a call of getXPath, isLikelyPaymentPage
                        \* or getEmbeds: the document it runs on (and the element)
    callResult          \* what that call returned

vars == <<config, path, domSignal, hostElement, hostDisplay, hostsCreated,
          hostsAttached, isPaymentAtOpen, modal, fab, fabOpen, repickBtn, text, isPicking, cursor,
          blockerRef, blockers, timers, handlersRef, pickListeners, hover,
          selectedElement, selectionHighlight, highlightHost, highlightBoxes,
          escRef, escListeners, routeListener,
          history, saved, inflight, threw, console, notifications, event,
          serArg, serResult, callArg, callResult>>

\* ------------------------------------------------------------------ bounds

\* host elements created over a run
MaxHosts == 2
\* init calls layered on history.pushState
MaxInits == 2
\* pending arming timers plus attached pick listener sets
MaxPickSets == 2
\* fetch calls in flight at once
MaxInflight == 1

\* ------------------------------------------------------------- environment


Paths == {"/home", "/admin", "/checkout"}

\* Page elements a click or hover can land on: two ordinary elements, the
\* widget host, and a cross-origin iframe.
PageElements == {"e1", "e2"}
Targets == PageElements \cup {"host", "xframe"}

Texts == {"", "t"}

\* new RegExp(pattern) for the patterns used here: "[" is not a valid regex.
RegexValid(pattern) == pattern # "["

\* new RegExp(pattern).test(p) for the patterns and paths used here
\* (unanchored search).
RegexTest(pattern, p) ==
    CASE pattern = ".*" -> TRUE
      [] pattern = "/admin" -> p = "/admin"
      [] pattern = "/home" -> p = "/home"
      [] OTHER -> FALSE

\* TagticsConfig values passed to init. includePaths / excludePaths are
\* sequences of regex strings; <<>> with the *Set flag FALSE is undefined.
Cfg(key, inc, incSet, exc, excSet, allow) ==
    [apiKey |-> key, includePaths |-> inc, includeSet |-> incSet,
     excludePaths |-> exc, excludeSet |-> excSet, allowSensitivePages |-> allow]

\* config = null
NoConfig == Cfg("null", <<>>, FALSE, <<>>, FALSE, FALSE)

Configs ==
    { Cfg("", <<>>, FALSE, <<>>, FALSE, FALSE),
      Cfg("k", <<>>, FALSE, <<>>, FALSE, FALSE),
      Cfg("k", <<>>, FALSE, <<>>, FALSE, TRUE),
      Cfg("k", <<>>, FALSE, <<"[", "/admin">>, TRUE, FALSE),
      Cfg("k", <<"[", "/home">>, TRUE, <<>>, FALSE, FALSE),
      Cfg("k", <<".*">>, TRUE, <<"/admin">>, TRUE, FALSE) }

\* A DOM event: its type, for keyboard events the key and whether ctrlKey or
\* metaKey is down, and whether preventDefault and stopPropagation were called.
Ev(type, key, mod) == [type |-> type, key |-> key, mod |-> mod, prevented |-> FALSE]

\* No event is being dispatched.
NoEvent == Ev("none", "", FALSE)

\* The state record the handlers work on.
Cur ==
    [config |-> config, path |-> path, domSignal |-> domSignal,
     hostElement |-> hostElement, hostDisplay |-> hostDisplay,
     hostsCreated |-> hostsCreated, hostsAttached |-> hostsAttached,
     isPaymentAtOpen |-> isPaymentAtOpen,
     modal |-> modal, fab |-> fab, fabOpen |-> fabOpen, repickBtn |-> repickBtn,
     text |-> text, isPicking |-> isPicking, cursor |-> cursor,
     blockerRef |-> blockerRef, blockers |-> blockers, timers |-> timers,
     handlersRef |-> handlersRef, pickListeners |-> pickListeners, hover |-> hover,
     selectedElement |-> selectedElement, selectionHighlight |-> selectionHighlight,
     highlightHost |-> highlightHost, highlightBoxes |-> highlightBoxes,
     escRef |-> escRef, escListeners |-> escListeners, routeListener |-> routeListener,
     history |-> history, saved |-> saved, inflight |-> inflight,
     threw |-> threw, console |-> console,
     notifications |-> notifications, event |-> event]

Become(t) ==
    /\ config' = t.config /\ path' = t.path /\ domSignal' = t.domSignal
    /\ hostElement' = t.hostElement /\ hostDisplay' = t.hostDisplay
    /\ hostsCreated' = t.hostsCreated /\ hostsAttached' = t.hostsAttached
    /\ isPaymentAtOpen' = t.isPaymentAtOpen
    /\ modal' = t.modal /\ fab' = t.fab /\ fabOpen' = t.fabOpen
    /\ repickBtn' = t.repickBtn /\ text' = t.text /\ isPicking' = t.isPicking
    /\ cursor' = t.cursor /\ blockerRef' = t.blockerRef /\ blockers' = t.blockers
    /\ timers' = t.timers /\ handlersRef' = t.handlersRef
    /\ pickListeners' = t.pickListeners /\ hover' = t.hover
    /\ selectedElement' = t.selectedElement
    /\ selectionHighlight' = t.selectionHighlight
    /\ highlightHost' = t.highlightHost /\ highlightBoxes' = t.highlightBoxes
    /\ escRef' = t.escRef /\ escListeners' = t.escListeners
    /\ routeListener' = t.routeListener /\ history' = t.history /\ saved' = t.saved
    /\ inflight' = t.inflight
    /\ threw' = t.threw /\ console' = t.console /\ notifications' = t.notifications
    /\ event' = t.event

\* A handler starts: its outputs are empty.
Begin(s) ==
    [s EXCEPT !.threw = FALSE, !.console = {}, !.notifications = <<>>,
              !.event = NoEvent]

\* e.preventDefault(); e.stopPropagation();
PreventAndStop(s) == [s EXCEPT !.event.prevented = TRUE]

\* An uncaught TypeError (a property read on null).
Throw(s) == [s EXCEPT !.threw = TRUE]

\* shadowRoot is assigned and nulled together with hostElement
\* (index.ts:846-849, 1038-1039).
ShadowRootNull(s) == s.hostElement = 0

\* ------------------------------------------------------ page classification

\* PAYMENT_KEYWORDS.some(kw => url.includes(kw)) for the paths used here.
UrlHasKeyword(p) == p = "/checkout"

\* isLikelyPaymentPage(): the URL signal or any of the document signals.
isLikelyPaymentPage(s) == UrlHasKeyword(s.path) \/ s.domSignal

\* ------------------------------------------------------------ visibility

\* The pattern loop with the try/catch around the whole loop instead of around
\* each pattern: the first pattern that does not compile ends the scan.
RECURSIVE PatternScan_AbortOnInvalid(_, _, _)
PatternScan_AbortOnInvalid(pats, p, i) ==
    IF i > Len(pats) THEN [hit |-> FALSE, warn |-> FALSE]
    ELSE IF ~RegexValid(pats[i]) THEN [hit |-> FALSE, warn |-> TRUE]
    ELSE IF RegexTest(pats[i], p) THEN [hit |-> TRUE, warn |-> FALSE]
    ELSE PatternScan_AbortOnInvalid(pats, p, i + 1)

\* One of the two pattern loops of shouldShowOnCurrentPath: scan the patterns
\* in order, stop at the first that matches; a pattern that does not compile
\* is warned about and skipped.
RECURSIVE PatternScan(_, _, _)
PatternScan(pats, p, i) ==
    IF i > Len(pats) THEN [hit |-> FALSE, warn |-> FALSE]
    ELSE IF ~RegexValid(pats[i])
         THEN [hit |-> PatternScan(pats, p, i + 1).hit, warn |-> TRUE]
    ELSE IF RegexTest(pats[i], p) THEN [hit |-> TRUE, warn |-> FALSE]
    ELSE PatternScan(pats, p, i + 1)

ExcludeLoop(s) ==
    IF s.config.excludeSet THEN PatternScan(s.config.excludePaths, s.path, 1)
    ELSE [hit |-> FALSE, warn |-> FALSE]

IncludeLoop(s) ==
    IF s.config.includeSet /\ Len(s.config.includePaths) > 0
    THEN PatternScan(s.config.includePaths, s.path, 1)
    ELSE [hit |-> TRUE, warn |-> FALSE]

\* The payment page check of shouldShowOnCurrentPath.
PaymentGate(s) == ~(isLikelyPaymentPage(s) /\ ~s.config.allowSensitivePages)

\* shouldShowOnCurrentPath(): the decision and the warnings it logged.
shouldShowOnCurrentPath(s) ==
    IF s.config = NoConfig THEN [show |-> FALSE, console |-> {}]
    ELSE LET ex == ExcludeLoop(s)
             exWarn == IF ex.warn THEN {"invalidExclude"} ELSE {}
         IN IF ex.hit THEN [show |-> FALSE, console |-> exWarn]
            ELSE LET inc == IncludeLoop(s)
                     warns == exWarn \cup (IF inc.warn THEN {"invalidInclude"} ELSE {})
                 IN IF ~inc.hit THEN [show |-> FALSE, console |-> warns]
                    ELSE [show |-> PaymentGate(s), console |-> warns]

\* open() without its `if (hostElement) return` guard.
open_NoHostGuard(s) ==
    IF s.config = NoConfig THEN [s EXCEPT !.console = @ \cup {"callInitFirst"}]
    ELSE [s EXCEPT !.hostElement = s.hostsCreated + 1,
                   !.hostsCreated = @ + 1,
                   !.hostsAttached = @ + 1,
                   !.hostDisplay = "",
                   !.isPaymentAtOpen = isLikelyPaymentPage(s),
                   !.fab = "", !.fabOpen = FALSE,
                   !.escListeners = @ + 1, !.escRef = TRUE,
                   !.modal = "", !.repickBtn = FALSE, !.text = ""]

\* open(): creates the host element, the FAB, the Escape listener and the modal.
open(s) ==
    IF s.config = NoConfig THEN [s EXCEPT !.console = @ \cup {"callInitFirst"}]
    ELSE IF s.hostElement # 0 THEN s
    ELSE [s EXCEPT !.hostElement = s.hostsCreated + 1,
                   !.hostsCreated = @ + 1,
                   !.hostsAttached = @ + 1,
                   !.hostDisplay = "",
                   !.isPaymentAtOpen = isLikelyPaymentPage(s),
                   !.fab = "", !.fabOpen = FALSE,
                   !.escListeners = @ + 1, !.escRef = TRUE,
                   !.modal = "", !.repickBtn = FALSE, !.text = ""]

\* updateWidgetVisibility() without its last branch: a hidden host is never
\* shown again.
updateWidgetVisibility_NoReshow(s) ==
    LET r == shouldShowOnCurrentPath(s)
        s1 == [s EXCEPT !.console = @ \cup r.console]
    IN IF r.show /\ s1.hostElement = 0 THEN open(s1)
       ELSE IF ~r.show /\ s1.hostElement # 0 THEN [s1 EXCEPT !.hostDisplay = "none"]
       ELSE s1

\* updateWidgetVisibility(): show / hide the widget for the current path.
updateWidgetVisibility(s) ==
    LET r == shouldShowOnCurrentPath(s)
        s1 == [s EXCEPT !.console = @ \cup r.console]
    IN IF r.show /\ s1.hostElement = 0 THEN open(s1)
       ELSE IF ~r.show /\ s1.hostElement # 0 THEN [s1 EXCEPT !.hostDisplay = "none"]
       ELSE IF r.show /\ s1.hostElement # 0 THEN [s1 EXCEPT !.hostDisplay = "block"]
       ELSE s1

\* init(c) without its apiKey check.
init_NoKeyCheck(s, c) ==
    LET s1 == updateWidgetVisibility([s EXCEPT !.config = c])
    IN [s1 EXCEPT !.routeListener = TRUE,
                  !.saved = s1.history,
                  !.history = @ + 1]

\* init(c): store the config, evaluate visibility, hook popstate and wrap
\* history.pushState / history.replaceState.
init(s, c) ==
    IF c.apiKey = "" THEN [s EXCEPT !.console = @ \cup {"apiKeyRequired"}]
    ELSE LET s1 == updateWidgetVisibility([s EXCEPT !.config = c])
         IN [s1 EXCEPT !.routeListener = TRUE,
                       !.saved = s1.history,
                       !.history = @ + 1]

\* ------------------------------------------------------- picking session

\* The events blockEvents listens to on window (capture phase).
BlockedEvents ==
    {"keydown", "keypress", "keyup", "mousedown", "mouseup", "touchstart",
     "touchend", "focus", "focusin"}

KeyEvents == {"keydown", "keyup", "keypress"}

\* The handler blockEvents attaches: Escape, F5 and Ctrl/Cmd+R pass, every
\* other event is prevented and stopped.
blockerHandler(s) ==
    LET e == s.event
    IN IF /\ e.type \in KeyEvents
          /\ \/ e.key = "Escape"
             \/ e.key = "F5"
             \/ (e.mod /\ e.key \in {"r", "R"})
       THEN s
       ELSE PreventAndStop(s)

blockEvents(s) == [s EXCEPT !.blockerRef = TRUE, !.blockers = @ + 1]

unblockEvents(s) ==
    IF s.blockerRef THEN [s EXCEPT !.blockers = @ - 1, !.blockerRef = FALSE]
    ELSE s

\* window._selectionHighlight.remove(): the number of boxes it takes out of
\* the document, one when the reference is set and its box is in the shadow
\* root of the current host, none when the box went with a removed host.
TrackedBoxes(s) ==
    IF s.selectionHighlight /\ s.hostElement # 0 /\ s.highlightHost = s.hostElement
    THEN 1 ELSE 0

showModal(s, fromPicking) ==
    IF s.modal = "null" THEN s
    ELSE [s EXCEPT !.modal = "flex", !.repickBtn = fromPicking, !.fab = "none"]

\* closeModal() dropping window._selectionHighlight without removing the box.
closeModal_KeepsHighlight(s) ==
    LET s1 == [s EXCEPT !.modal = IF @ = "null" THEN @ ELSE "none",
                        !.highlightHost = 0,
                        !.selectionHighlight = FALSE,
                        !.selectedElement = "null"]
    IN IF ShadowRootNull(s1) THEN Throw(s1)
       ELSE [s1 EXCEPT !.text = "", !.fab = "flex"]

\* closeModal(): reads shadowRoot after clearing the selection, so it throws
\* there when shadowRoot is null.
closeModal(s) ==
    LET s1 == [s EXCEPT !.modal = IF @ = "null" THEN @ ELSE "none",
                        !.highlightBoxes = @ - TrackedBoxes(s),
                        !.highlightHost = 0,
                        !.selectionHighlight = FALSE,
                        !.selectedElement = "null"]
    IN IF ShadowRootNull(s1) THEN Throw(s1)
       ELSE [s1 EXCEPT !.text = "", !.fab = "flex"]

startPicking(s) ==
    LET s1 == blockEvents([s EXCEPT !.isPicking = TRUE])
    IN IF s1.modal = "null" THEN Throw(s1)
       ELSE [s1 EXCEPT !.modal = "none", !.fabOpen = FALSE, !.fab = "none",
                       !.cursor = "crosshair", !.hover = "none",
                       !.timers = @ + 1]

\* The setTimeout callback of startPicking: attach the pick listeners and
\* store them in window._tagticsHandlers.
armListeners(s) ==
    [s EXCEPT !.timers = @ - 1, !.pickListeners = @ + 1, !.handlersRef = TRUE]

stopPicking(s, proceedToModal) ==
    LET s1 == unblockEvents([s EXCEPT !.isPicking = FALSE])
        s2 == [s1 EXCEPT !.cursor = "default"]
        s3 == IF s2.handlersRef
              THEN [s2 EXCEPT !.pickListeners = @ - 1, !.handlersRef = FALSE,
                              !.hover = "none"]
              ELSE s2
    IN IF proceedToModal THEN showModal(s3, TRUE) ELSE closeModal(s3)

selectElement(s, el) ==
    LET s1 == [s EXCEPT !.selectedElement = el]
    IN IF ShadowRootNull(s1) THEN Throw(s1)
       ELSE [s1 EXCEPT !.highlightBoxes = @ + 1 - TrackedBoxes(s1),
                       !.highlightHost = s1.hostElement,
                       !.selectionHighlight = TRUE]

\* A click target that is the widget host (or carries its id).
IsHostTarget(s, target) == target = "host"

mouseOverHandler(s, target) ==
    IF ~s.isPicking THEN s
    ELSE IF target = "xframe" THEN [s EXCEPT !.hover = "tooltip"]
    ELSE IF IsHostTarget(s, target) THEN s
    ELSE [s EXCEPT !.hover = "highlight"]

clickHandler(s, target) ==
    IF ~s.isPicking THEN s
    ELSE LET s0 == PreventAndStop(s)
         IN IF target = "xframe" THEN s0
            ELSE IF IsHostTarget(s0, target) THEN s0
            ELSE LET s1 == stopPicking(s0, TRUE)
                 IN IF s1.threw THEN s1 ELSE selectElement(s1, target)

resizeHandler(s) == IF s.isPicking THEN stopPicking(s, FALSE) ELSE s

escHandler(s) ==
    IF s.isPicking THEN stopPicking(s, FALSE)
    ELSE IF s.modal = "flex" THEN closeModal(s)
    ELSE s

\* ------------------------------------------------------------- teardown

\* destroy() without its `if (hostElement)` guard: hostElement.remove() on
\* null raises.
destroy_Unguarded(s) ==
    IF s.hostElement = 0 THEN Throw(s)
    ELSE LET s1 == [s EXCEPT !.hostElement = 0, !.hostDisplay = "",
                             !.hostsAttached = @ - 1,
                             !.highlightBoxes = 0,
                             !.modal = "null", !.fab = "null", !.fabOpen = FALSE,
                             !.repickBtn = FALSE, !.text = "",
                             !.selectedElement = "null"]
             s2 == IF s1.handlersRef THEN stopPicking(s1, FALSE) ELSE s1
         IN IF s2.threw THEN s2
            ELSE LET s3 == IF s2.escRef
                           THEN [s2 EXCEPT !.escListeners = @ - 1, !.escRef = FALSE]
                           ELSE s2
                     s4 == [s3 EXCEPT !.routeListener = FALSE]
                 IN IF s4.saved # -1
                    THEN [s4 EXCEPT !.history = s4.saved, !.saved = -1]
                    ELSE s4

destroy(s) ==
    IF s.hostElement = 0 THEN s
    ELSE LET s1 == [s EXCEPT !.hostElement = 0, !.hostDisplay = "",
                             !.hostsAttached = @ - 1,
                             !.highlightBoxes = 0,
                             !.modal = "null", !.fab = "null", !.fabOpen = FALSE,
                             !.repickBtn = FALSE, !.text = "",
                             !.selectedElement = "null"]
             s2 == IF s1.handlersRef THEN stopPicking(s1, FALSE) ELSE s1
         IN IF s2.threw THEN s2
            ELSE LET s3 == IF s2.escRef
                           THEN [s2 EXCEPT !.escListeners = @ - 1, !.escRef = FALSE]
                           ELSE s2
                     s4 == [s3 EXCEPT !.routeListener = FALSE]
                 IN IF s4.saved # -1
                    THEN [s4 EXCEPT !.history = s4.saved, !.saved = -1]
                    ELSE s4

\* ------------------------------------------------------------ submission

showToast(s, type) ==
    IF ShadowRootNull(s) THEN Throw(s)
    ELSE [s EXCEPT !.notifications = Append(@, type)]

\* The report sendFeedback builds before it closes the modal.
Payload(s, txt) ==
    [feedback |-> txt,
     selected |-> IF s.selectedElement = "null" THEN "PAGE_FEEDBACK"
                  ELSE s.selectedElement,
     path |-> s.path]

\* sendFeedback(text) closing the modal before it builds the payload.
sendFeedback_CloseFirst(s, txt) ==
    IF s.config = NoConfig THEN s
    ELSE LET s1 == closeModal(s)
         IN IF s1.threw THEN s1
            ELSE [s1 EXCEPT !.inflight = Append(@, Payload(s1, txt))]

\* sendFeedback(text) up to its await: build the payload, close the modal,
\* start the fetch.
sendFeedback(s, txt) ==
    IF s.config = NoConfig THEN s
    ELSE LET payload == Payload(s, txt)
             s1 == closeModal(s)
         IN IF s1.threw THEN s1
            ELSE [s1 EXCEPT !.inflight = Append(@, payload)]

\* The catch block of sendFeedback.
sendFailed(s) ==
    showToast([s EXCEPT !.threw = FALSE, !.console = @ \cup {"sendFailed"}], "error")

\* sendFeedback after its await, with a rejected fetch started again.
fetchSettled_Retry(s, outcome) ==
    IF outcome = "reject"
    THEN LET s1 == sendFailed(s)
         IN [s1 EXCEPT !.inflight = Append(@, Payload(s1, ""))]
    ELSE LET s1 == showToast(s, "success")
         IN IF s1.threw THEN sendFailed(s1) ELSE s1

\* sendFeedback after its await: the fetch promise resolved (with any HTTP
\* status) or rejected.
fetchSettled(s, outcome) ==
    IF outcome = "reject" THEN sendFailed(s)
    ELSE LET s1 == showToast(s, "success")
         IN IF s1.threw THEN sendFailed(s1) ELSE s1

\* ---------------------------------------------------------- widget buttons

mainBtnClick(s) ==
    LET s1 == [s EXCEPT !.fabOpen = ~@]
    IN IF s1.modal = "flex" THEN closeModal(s1) ELSE s1

pageBtnClick(s) == showModal([s EXCEPT !.fabOpen = FALSE], FALSE)

\* The Pick element handler with the pick listeners attached at once and the
\* requesting click delivered to them as a click on the page.
pickBtnClick_CapturesClick(s) ==
    IF s.isPaymentAtOpen /\ ~s.config.allowSensitivePages THEN s
    ELSE LET s1 == startPicking([s EXCEPT !.fabOpen = FALSE])
         IN IF s1.threw THEN s1
            ELSE clickHandler(armListeners(s1), "e1")

pickBtnClick(s) ==
    IF s.isPaymentAtOpen /\ ~s.config.allowSensitivePages THEN s
    ELSE startPicking([s EXCEPT !.fabOpen = FALSE])

repickBtnClick(s) ==
    LET s1 == closeModal(s)
    IN IF s1.threw THEN s1 ELSE startPicking(s1)

sendBtnClick(s) == sendFeedback(s, s.text)

\* keydown Enter (without Shift) in the textarea.
textareaEnter(s) == IF s.text # "" THEN sendFeedback(s, s.text) ELSE s

\* The wrappers init put on history.pushState / replaceState: each layer calls
\* the layer below, then updateWidgetVisibility.
RECURSIVE historyCall(_, _)
historyCall(s, layers) ==
    IF layers = 0 THEN s
    ELSE updateWidgetVisibility(historyCall(s, layers - 1))

\* ------------------------------------------------------------------ actions

Bounded(t) ==
    /\ t.hostsCreated <= MaxHosts
    /\ t.history <= MaxInits
    /\ t.timers + t.pickListeners <= MaxPickSets
    /\ Len(t.inflight) <= MaxInflight

Step(t) ==
    Bounded(t) /\ Become(t) /\ UNCHANGED <<serArg, serResult, callArg, callResult>>

\* The widget's own buttons can be clicked: the host is in the document and
\* displayed, and no armed pick click listener swallows the click first.
WidgetClickable ==
    /\ hostElement # 0
    /\ hostDisplay # "none"
    /\ ~(isPicking /\ pickListeners > 0)

FabVisible == WidgetClickable /\ fab # "none"
ModalVisible == WidgetClickable /\ modal = "flex"

WidgetInit ==
    /\ config = NoConfig /\ path = "/home" /\ domSignal = FALSE
    /\ hostElement = 0 /\ hostDisplay = "" /\ hostsCreated = 0
    /\ hostsAttached = 0
    /\ isPaymentAtOpen = FALSE
    /\ modal = "null" /\ fab = "null" /\ fabOpen = FALSE /\ repickBtn = FALSE
    /\ text = "" /\ isPicking = FALSE /\ cursor = ""
    /\ blockerRef = FALSE /\ blockers = 0 /\ timers = 0
    /\ handlersRef = FALSE /\ pickListeners = 0 /\ hover = "none"
    /\ selectedElement = "null" /\ selectionHighlight = FALSE
    /\ highlightHost = 0 /\ highlightBoxes = 0
    /\ escRef = FALSE /\ escListeners = 0 /\ routeListener = FALSE
    /\ history = 0 /\ saved = -1 /\ inflight = <<>>
    /\ threw = FALSE /\ console = {} /\ notifications = <<>>
    /\ event = NoEvent

\* No serializeElement call has been made.
NoCall == [tag |-> "none"]

Init ==
    /\ WidgetInit /\ serArg = NoCall /\ serResult = NoCall
    /\ callArg = NoCall /\ callResult = NoCall

InitWith(c) == Step(init(Begin(Cur), c))

CallInit == \E c \in Configs : InitWith(c)

CallOpen == Step(open(Begin(Cur)))

CallDestroy == Step(destroy(Begin(Cur)))

\* The host page calls history.pushState or history.replaceState.
NavigateTo(p) == Step(historyCall([Begin(Cur) EXCEPT !.path = p], history))

PushState == \E p \in Paths : NavigateTo(p)

\* Back / forward navigation.
PopTo(p) ==
    LET s == [Begin(Cur) EXCEPT !.path = p]
    IN Step(IF routeListener THEN updateWidgetVisibility(s) ELSE s)

PopState == \E p \in Paths : PopTo(p)

\* The host page's document gains or loses a payment signal.
DomChange == Step([Begin(Cur) EXCEPT !.domSignal = ~@])

ClickMain == FabVisible /\ Step(mainBtnClick(Begin(Cur)))

ClickPageFeedback == FabVisible /\ fabOpen /\ Step(pageBtnClick(Begin(Cur)))

ClickPick == FabVisible /\ fabOpen /\ Step(pickBtnClick(Begin(Cur)))

ClickRepick == ModalVisible /\ repickBtn /\ Step(repickBtnClick(Begin(Cur)))

TypeText ==
    /\ ModalVisible /\ blockers = 0
    /\ \E t \in Texts : Step([Begin(Cur) EXCEPT !.text = t])

ClickSend == ModalVisible /\ Step(sendBtnClick(Begin(Cur)))

PressEnter ==
    /\ ModalVisible /\ blockers = 0
    /\ Step(textareaEnter(Begin(Cur)))

\* A submit: the Send button, or Enter in the textarea.
Submit == ClickSend \/ PressEnter

\* The 50 ms timer of startPicking fires.
TimerFire == timers > 0 /\ Step(armListeners(Begin(Cur)))

Hover ==
    /\ pickListeners > 0
    /\ \E t \in Targets : Step(mouseOverHandler(Begin(Cur), t))

\* A click on target t is dispatched: the capturing click listener of the
\* pick session runs if it is attached.
dispatchClick(s, t) ==
    LET s0 == [s EXCEPT !.event = Ev("click", "", FALSE)]
    IN IF s0.pickListeners > 0 THEN clickHandler(s0, t) ELSE s0

ClickOn(t) == pickListeners > 0 /\ Step(dispatchClick(Begin(Cur), t))

\* The user clicks somewhere on the page, whatever the widget is doing.
PageClickOn(t) == Step(dispatchClick(Begin(Cur), t))

PageClick == \E t \in Targets : PageClickOn(t)

ClickPage == \E t \in Targets : ClickOn(t)

Resize == pickListeners > 0 /\ Step(resizeHandler(Begin(Cur)))

\* The window is resized, whatever the widget is doing: the resize listener
\* of the pick session runs if it is attached.
dispatchResize(s) ==
    LET s0 == [s EXCEPT !.event = Ev("resize", "", FALSE)]
    IN IF s0.pickListeners > 0 THEN resizeHandler(s0) ELSE s0

WindowResize == Step(dispatchResize(Begin(Cur)))

\* keydown Escape: every Escape listener on document runs; an exception in
\* one listener is reported and does not stop the next.
RECURSIVE escDispatch(_, _)
escDispatch(s, n) ==
    IF n = 0 THEN s
    ELSE LET s1 == escDispatch(s, n - 1)
             s2 == escHandler([s1 EXCEPT !.threw = FALSE])
         IN [s2 EXCEPT !.threw = s1.threw \/ s2.threw]

\* An event is dispatched: the blocker on window (capture) sees it first, a
\* keydown that was not stopped then reaches the Escape listeners on document.
dispatchEvent(s, ev) ==
    LET s0 == [s EXCEPT !.event = ev]
        s1 == IF s0.blockers > 0 /\ ev.type \in BlockedEvents
              THEN blockerHandler(s0) ELSE s0
    IN IF ev.type = "keydown" /\ ev.key = "Escape" /\ ~s1.event.prevented
       THEN escDispatch(s1, s1.escListeners)
       ELSE s1

PressEscape ==
    escListeners > 0 /\ Step(dispatchEvent(Begin(Cur), Ev("keydown", "Escape", FALSE)))

\* Keyboard, mouse, touch and focus events of the page.
Keys == {"Escape", "F5", "r", "R", "a"}

PageEvents ==
    { Ev(t, k, m) : t \in KeyEvents, k \in Keys, m \in BOOLEAN }
    \cup { Ev(t, "", FALSE) : t \in BlockedEvents \ KeyEvents }

PageEventOf(ev) == Step(dispatchEvent(Begin(Cur), ev))

PageEvent == \E ev \in PageEvents : PageEventOf(ev)

\* A fetch settles: resolved with a 2xx status, resolved with an error
\* status, or rejected.
Outcomes == {"ok", "httpError", "reject"}

SettleWith(i, outcome) ==
    /\ i \in 1..Len(inflight)
    /\ Step(fetchSettled([Begin(Cur) EXCEPT
                !.inflight = SubSeq(@, 1, i - 1) \o SubSeq(@, i + 1, Len(@))],
            outcome))

FetchSettles == \E i \in 1..Len(inflight), outcome \in Outcomes : SettleWith(i, outcome)

\* ---------------------------------------------------------- specifications

\* Lifecycle and picking session: init, open, destroy, navigation, the pick
\* buttons, the arming timer, page clicks, resize and Escape.
SessionConfigs ==
    { Cfg("k", <<>>, FALSE, <<"[", "/admin">>, TRUE, FALSE) }

SessionPaths == {"/home", "/admin"}

SessionInit == \E c \in SessionConfigs : InitWith(c)
SessionPush == \E p \in SessionPaths : NavigateTo(p)
SessionPop == \E p \in SessionPaths : PopTo(p)

\* Clicks of a session land on one ordinary element, the widget host or a
\* cross-origin iframe.
SubmitTargets == {"e1", "host", "xframe"}

SubmitClick == \E t \in SubmitTargets : ClickOn(t)

NextSession ==
    \/ SessionInit \/ CallOpen \/ CallDestroy
    \/ SessionPush \/ SessionPop
    \/ ClickMain \/ ClickPageFeedback \/ ClickPick \/ ClickRepick
    \/ TimerFire \/ SubmitClick \/ Resize \/ PressEscape

SpecSession == Init /\ [][NextSession]_vars

\* Route visibility: init with every configuration, open, destroy, navigation
\* to every path, document changes.
NextRoute ==
    \/ CallInit \/ CallOpen \/ CallDestroy
    \/ PushState \/ PopState \/ DomChange

SpecRoute == Init /\ [][NextRoute]_vars

\* Submission: one init, then pick or page feedback, type, submit, the fetch
\* settling, with destroy and re-open in between; clicks land on one page
\* element, the widget host or a cross-origin iframe.
SubmitConfigs == { Cfg("k", <<>>, FALSE, <<>>, FALSE, FALSE) }

SubmitInit == config = NoConfig /\ \E c \in SubmitConfigs : InitWith(c)

NextSubmit ==
    \/ SubmitInit \/ CallOpen \/ CallDestroy
    \/ ClickMain \/ ClickPageFeedback \/ ClickPick \/ ClickRepick
    \/ TimerFire \/ SubmitClick \/ PressEscape
    \/ TypeText \/ ClickSend \/ PressEnter \/ FetchSettles

SpecSubmit == Init /\ [][NextSubmit]_vars

\* Page interaction around a pick session: one init, open, destroy, the pick
\* buttons, the arming timer, and every click, key, mouse, touch and focus
\* event of the page in every state.
NextPick ==
    \/ SubmitInit \/ CallOpen \/ CallDestroy
    \/ ClickMain \/ ClickPick \/ TimerFire
    \/ PageClick \/ PageEvent \/ Resize \/ WindowResize

SpecPick == Init /\ [][NextPick]_vars

\* The pick gate: one init with sensitive pages allowed or not, then
\* navigation and document changes between the clicks on the floating button
\* and on Pick element.
GateConfigs ==
    { Cfg("k", <<>>, FALSE, <<>>, FALSE, FALSE),
      Cfg("k", <<>>, FALSE, <<>>, FALSE, TRUE) }

GateInit == config = NoConfig /\ \E c \in GateConfigs : InitWith(c)

NextGate ==
    \/ GateInit \/ CallOpen \/ CallDestroy
    \/ PushState \/ PopState \/ DomChange
    \/ ClickMain \/ ClickPick \/ TimerFire \/ PressEscape

SpecGate == Init /\ [][NextGate]_vars

\* The whole widget.
Next ==
    \/ CallInit \/ CallOpen \/ CallDestroy
    \/ PushState \/ PopState \/ DomChange
    \/ ClickMain \/ ClickPageFeedback \/ ClickPick \/ ClickRepick
    \/ TypeText \/ ClickSend \/ PressEnter
    \/ TimerFire \/ Hover \/ ClickPage \/ Resize \/ PressEscape
    \/ PageClick \/ PageEvent \/ WindowResize
    \/ FetchSettles

Spec == Init /\ [][Next]_vars

\* ------------------------------------------------------------- serializer

\* Strings the serializer inspects are sequences of characters.
N_value == <<"v", "a", "l", "u", "e">>
N_type == <<"t", "y", "p", "e">>
N_PIN == <<"P", "I", "N">>
N_shipping == <<"s", "h", "i", "p", "p", "i", "n", "g">>
N_cvv2 == <<"c", "v", "v", "2">>
N_dataCard == <<"d", "-", "c", "a", "r", "d">>

\* The alternatives of REDACT_ATTR_REGEX.
RedactWords ==
    { <<"p", "a", "s", "s", "w", "o", "r", "d">>, <<"s", "s", "n">>,
      <<"c", "a", "r", "d">>, <<"c", "r", "e", "d", "i", "t">>,
      <<"c", "v", "v">>, <<"p", "i", "n">> }

\* The i flag, for the upper-case letters used here.
LowerChar(c) ==
    CASE c = "P" -> "p" [] c = "I" -> "i" [] c = "N" -> "n"
      [] c = "A" -> "a" [] c = "C" -> "c" [] c = "D" -> "d" [] c = "E" -> "e"
      [] c = "H" -> "h" [] c = "K" -> "k" [] c = "O" -> "o" [] c = "R" -> "r"
      [] c = "S" -> "s" [] c = "T" -> "t" [] c = "U" -> "u" [] c = "Y" -> "y"
      [] OTHER -> c

ToLower(str) == [i \in 1..Len(str) |-> LowerChar(str[i])]

Includes(str, word) ==
    \E i \in 1..(Len(str) - Len(word) + 1) : SubSeq(str, i, i + Len(word) - 1) = word

\* REDACT_ATTR_REGEX.test(name)
RedactTest(name) == \E w \in RedactWords : Includes(ToLower(name), w)

\* el.tagName.toLowerCase()
TagLower(tagName) ==
    CASE tagName = "INPUT" -> "input" [] tagName = "TEXTAREA" -> "textarea"
      [] tagName = "SELECT" -> "select" [] tagName = "DIV" -> "div"
      [] tagName = "SPAN" -> "span" [] tagName = "HTML" -> "html"
      [] tagName = "HEAD" -> "head" [] tagName = "BODY" -> "body"
      [] OTHER -> tagName

\* The value serializeElement stores for one attribute, with redaction
\* matching case-sensitively.
AttrValue_CaseSensitive(tagName, attr) ==
    IF \E w \in RedactWords : Includes(attr.name, w) THEN "[REDACTED]"
    ELSE IF attr.name = N_value /\ (tagName = "input" \/ tagName = "textarea")
         THEN "test value"
    ELSE attr.value

\* The value serializeElement stores for one attribute.
AttrValue(tagName, attr) ==
    IF RedactTest(attr.name) THEN "[REDACTED]"
    ELSE IF attr.name = N_value /\ (tagName = "input" \/ tagName = "textarea")
         THEN "test value"
    ELSE attr.value

\* attributes[k] = v
Put(f, k, v) == [x \in (DOMAIN f) \cup {k} |-> IF x = k THEN v ELSE f[x]]

\* The attribute loop of serializeElement over el.attributes[1..i].
RECURSIVE AttrLoop(_, _, _)
AttrLoop(tagName, attrs, i) ==
    IF i = 0 THEN <<>>
    ELSE Put(AttrLoop(tagName, attrs, i - 1), attrs[i].name,
             AttrValue(tagName, attrs[i]))

\* The longest text serializeElement keeps.
TextLimit == 200

\* The text rule without its isContentEditable test.
TextOf_IgnoresEditable(el, tagName) ==
    IF Len(el.children) = 0 /\ tagName \notin {"input", "textarea", "select"}
    THEN SubSeq(el.textContent, 1,
                IF Len(el.textContent) < TextLimit THEN Len(el.textContent)
                ELSE TextLimit)
    ELSE <<>>

\* (el.textContent || '').substring(0, 200) for leaf nodes that are not form
\* controls or content-editable.
TextOf(el, tagName) ==
    IF Len(el.children) = 0 /\ tagName \notin {"input", "textarea", "select"}
       /\ ~el.isContentEditable
    THEN SubSeq(el.textContent, 1,
                IF Len(el.textContent) < TextLimit THEN Len(el.textContent)
                ELSE TextLimit)
    ELSE <<>>

\* The computed-style keys read here (a part of styleKeys) and a value that
\* holds a data URI.
StyleKeys == {"display", "color", "border"}
IncludesDataUri(val) == val = "url(data:image/png;base64,AAAA)"

StylesOf(el) ==
    [k \in {x \in StyleKeys : ~IncludesDataUri(el.computed[x])} |-> el.computed[k]]

\* serializeElement(el, depth, currentDepth)
RECURSIVE serializeElement(_, _, _)
RECURSIVE serializeChildren(_, _, _, _)
serializeChildren(el, depth, currentDepth, i) ==
    IF i = 0 THEN <<>>
    ELSE LET before == serializeChildren(el, depth, currentDepth, i - 1)
         IN IF el.children[i].isHTMLElement
            THEN Append(before, serializeElement(el.children[i], depth, currentDepth + 1))
            ELSE before

serializeElement(el, depth, currentDepth) ==
    LET tagName == TagLower(el.tagName)
    IN [tag |-> tagName,
        attributes |-> AttrLoop(tagName, el.attributes, Len(el.attributes)),
        text |-> TextOf(el, tagName),
        styles |-> StylesOf(el),
        children |-> IF currentDepth < depth
                     THEN serializeChildren(el, depth, currentDepth, Len(el.children))
                     ELSE <<>>]

\* --- elements the serializer is applied to

\* serializeChildDepth values tried
MaxDepth == 2

Attr(n, v) == [name |-> n, value |-> v]

AttrLists ==
    { <<>>,
      <<Attr(N_type, "text"), Attr(N_dataCard, "1234"), Attr(N_value, "secret")>>,
      <<Attr(N_value, "secret"), Attr(N_PIN, "0000")>>,
      <<Attr(N_shipping, "home"), Attr(N_cvv2, "123")>> }

TextContents ==
    { <<>>, <<"h", "i">>, [i \in 1..TextLimit |-> "a"], [i \in 1..(TextLimit + 1) |-> "a"] }

PlainStyle == [k \in StyleKeys |-> "none"]
DataStyle == [k \in StyleKeys |->
                 IF k = "border" THEN "url(data:image/png;base64,AAAA)" ELSE "none"]

Element(tagName, attrs, txt, editable, html, computed, children) ==
    [tagName |-> tagName, attributes |-> attrs, textContent |-> txt,
     isContentEditable |-> editable, isHTMLElement |-> html,
     computed |-> computed, children |-> children]

Leaves ==
    { Element(t, a, <<"h", "i">>, FALSE, TRUE, PlainStyle, <<>>) :
          t \in {"INPUT", "TEXTAREA", "SELECT", "SPAN"}, a \in AttrLists }
    \cup
    { Element("DIV", <<>>, txt, e, TRUE, st, <<>>) :
          txt \in TextContents, e \in BOOLEAN, st \in {PlainStyle, DataStyle} }
    \cup
    { Element("svg", <<Attr(N_PIN, "0000")>>, <<>>, FALSE, FALSE, PlainStyle, <<>>) }

Parents ==
    { Element("DIV", a, <<"h", "i">>, FALSE, TRUE, PlainStyle, <<c>>) :
          a \in {<<>>, <<Attr(N_dataCard, "1234")>>}, c \in Leaves }

GrandParents ==
    { Element("DIV", <<Attr(N_cvv2, "123")>>, <<"h", "i">>, FALSE, TRUE, PlainStyle,
              <<c, Element("SPAN", <<>>, <<>>, FALSE, TRUE, PlainStyle, <<>>)>>) :
          c \in Parents }

Elements == { e \in Leaves : e.isHTMLElement } \cup Parents \cup GrandParents

SerInit ==
    /\ WidgetInit
    /\ serArg \in { [el |-> e, depth |-> d] : e \in Elements, d \in 0..MaxDepth }
    /\ serResult = NoCall
    /\ callArg = NoCall /\ callResult = NoCall

Serialize ==
    /\ serResult = NoCall
    /\ serResult' = serializeElement(serArg.el, serArg.depth, 0)
    /\ UNCHANGED <<config, path, domSignal, hostElement, hostDisplay, hostsCreated,
                   hostsAttached, isPaymentAtOpen, modal, fab, fabOpen, repickBtn, text, isPicking,
                   cursor, blockerRef, blockers, timers, handlersRef, pickListeners,
                   hover, selectedElement, selectionHighlight, highlightHost,
                   highlightBoxes, escRef, escListeners,
                   routeListener, history, saved, inflight, threw, console,
                   notifications, event, serArg, callArg, callResult>>

NextSer == Serialize

SpecSer == SerInit /\ [][NextSer]_vars

\* ------------------------------------------------------- element address

\* Node.ELEMENT_NODE
ELEMENT_NODE == 1

\* A DOM node: element (nodeType 1), text (3), document (9) or document
\* fragment (11); parentNode is a node name or "null", childNodes the names of
\* its child nodes in document order.
DomNode(nodeType, tagName, id, parentNode, childNodes) ==
    [nodeType |-> nodeType, tagName |-> tagName, id |-> id,
     parentNode |-> parentNode, childNodes |-> childNodes]

NodeNames ==
    {"document", "html", "head", "body", "c", "s1", "t", "d1", "s2", "x", "frag", "fx"}

\* A document: html > (head, body > div c > (span s1, text t, div d1, span s2)),
\* a detached element x, and an element fx inside a document fragment.
Document(htmlId, bodyId, cId, s1Id, s2Id) ==
    [n \in NodeNames |->
        CASE n = "document" -> DomNode(9, "", "", "null", <<"html">>)
          [] n = "html" -> DomNode(1, "HTML", htmlId, "document", <<"head", "body">>)
          [] n = "head" -> DomNode(1, "HEAD", "", "html", <<>>)
          [] n = "body" -> DomNode(1, "BODY", bodyId, "html", <<"c">>)
          [] n = "c" -> DomNode(1, "DIV", cId, "body", <<"s1", "t", "d1", "s2">>)
          [] n = "s1" -> DomNode(1, "SPAN", s1Id, "c", <<>>)
          [] n = "t" -> DomNode(3, "", "", "c", <<>>)
          [] n = "d1" -> DomNode(1, "DIV", "", "c", <<>>)
          [] n = "s2" -> DomNode(1, "SPAN", s2Id, "c", <<>>)
          [] n = "x" -> DomNode(1, "DIV", "", "null", <<>>)
          [] n = "frag" -> DomNode(11, "", "", "null", <<"fx">>)
          [] n = "fx" -> DomNode(1, "SPAN", "", "frag", <<>>)]

Documents ==
    { Document(h, b, c, s1, s2) :
        h \in {"", "root"}, b \in {"", "app"}, c \in {"", "main"},
        s1 \in {"", "first"}, s2 \in {"", "last"} }

\* The elements getXPath is called on.
ElementNames == { n \in NodeNames : Document("", "", "", "", "")[n].nodeType = ELEMENT_NODE }

\* document.body
DocumentBody == "body"

\* Strings built by getXPath are sequences of pieces; + is \o.
IdPath(id) == <<"//*[@id=\"", id, "\"]">>
BodyPath == <<"/html/body">>

\* '' + n for the sibling positions that occur here.
NumberToString(n) ==
    CASE n = 1 -> "1" [] n = 2 -> "2" [] n = 3 -> "3" [] n = 4 -> "4" [] OTHER -> "?"

RECURSIVE getXPath(_, _)
RECURSIVE XPathLoop(_, _, _, _)

\* The sibling loop counting every element sibling, whatever its tag name.
XPathLoop_AnyTag(doc, n, i, ix) ==
    LET siblings == doc[doc[n].parentNode].childNodes
    IN IF i > Len(siblings) THEN <<>>
       ELSE IF siblings[i] = n
            THEN getXPath(doc, doc[n].parentNode)
                    \o <<"/", TagLower(doc[n].tagName), "[", NumberToString(ix + 1), "]">>
       ELSE XPathLoop(doc, n, i + 1,
                      IF doc[siblings[i]].nodeType = 1 THEN ix + 1 ELSE ix)

\* The sibling loop giving every element the position 1.
XPathLoop_FirstIndex(doc, n, i, ix) ==
    LET siblings == doc[doc[n].parentNode].childNodes
    IN IF i > Len(siblings) THEN <<>>
       ELSE IF siblings[i] = n
            THEN getXPath(doc, doc[n].parentNode)
                    \o <<"/", TagLower(doc[n].tagName), "[", NumberToString(1), "]">>
       ELSE XPathLoop(doc, n, i + 1, ix)

\* The sibling loop of getXPath from siblings[i] on, ix same-tag element
\* siblings counted so far.
XPathLoop(doc, n, i, ix) ==
    LET siblings == doc[doc[n].parentNode].childNodes
    IN IF i > Len(siblings) THEN <<>>
       ELSE IF siblings[i] = n
            THEN getXPath(doc, doc[n].parentNode)
                    \o <<"/", TagLower(doc[n].tagName), "[", NumberToString(ix + 1), "]">>
       ELSE XPathLoop(doc, n, i + 1,
                      IF /\ doc[siblings[i]].nodeType = 1
                         /\ doc[siblings[i]].tagName = doc[n].tagName
                      THEN ix + 1 ELSE ix)

\* getXPath testing for document.body before it tests for an id.
getXPath_BodyFirst(doc, n) ==
    IF n = DocumentBody THEN BodyPath
    ELSE IF doc[n].id # "" THEN IdPath(doc[n].id)
    ELSE IF \/ doc[n].parentNode = "null"
            \/ doc[doc[n].parentNode].nodeType # ELEMENT_NODE
         THEN <<TagLower(doc[n].tagName)>>
    ELSE XPathLoop(doc, n, 1, 0)

\* getXPath without its document.body case.
getXPath_NoBodyCase(doc, n) ==
    IF doc[n].id # "" THEN IdPath(doc[n].id)
    ELSE IF \/ doc[n].parentNode = "null"
            \/ doc[doc[n].parentNode].nodeType # ELEMENT_NODE
         THEN <<TagLower(doc[n].tagName)>>
    ELSE XPathLoop(doc, n, 1, 0)

\* getXPath answering the empty string for a detached or root element.
getXPath_EmptyForDetached(doc, n) ==
    IF doc[n].id # "" THEN IdPath(doc[n].id)
    ELSE IF n = DocumentBody THEN BodyPath
    ELSE IF \/ doc[n].parentNode = "null"
            \/ doc[doc[n].parentNode].nodeType # ELEMENT_NODE
         THEN <<>>
    ELSE XPathLoop(doc, n, 1, 0)

\* getXPath(element) for element n of document doc.
getXPath(doc, n) ==
    IF doc[n].id # "" THEN IdPath(doc[n].id)
    ELSE IF n = DocumentBody THEN BodyPath
    ELSE IF \/ doc[n].parentNode = "null"
            \/ doc[doc[n].parentNode].nodeType # ELEMENT_NODE
         THEN <<TagLower(doc[n].tagName)>>
    ELSE XPathLoop(doc, n, 1, 0)

XPathInit ==
    /\ WidgetInit /\ serArg = NoCall /\ serResult = NoCall
    /\ callArg \in { [fn |-> "getXPath", doc |-> d, element |-> n] :
                        d \in Documents, n \in ElementNames }
    /\ callResult = NoCall

\* What is left alone by a call of a function that reads the document only.
WidgetUnchanged ==
    UNCHANGED <<config, path, domSignal, hostElement, hostDisplay, hostsCreated,
                hostsAttached, isPaymentAtOpen, modal, fab, fabOpen, repickBtn,
                text, isPicking, cursor, blockerRef, blockers, timers,
                handlersRef, pickListeners, hover, selectedElement,
                selectionHighlight, highlightHost, highlightBoxes, escRef,
                escListeners, routeListener, history,
                saved, inflight, threw, console, notifications, event,
                serArg, serResult>>

CallGetXPath ==
    /\ callResult = NoCall
    /\ callResult' = [value |-> getXPath(callArg.doc, callArg.element)]
    /\ UNCHANGED callArg
    /\ WidgetUnchanged

NextXPath == CallGetXPath

SpecXPath == XPathInit /\ [][NextXPath]_vars

\* ------------------------------------------------------ payment heuristics

\* PAYMENT_KEYWORDS
PAYMENT_KEYWORDS ==
    { <<"c", "h", "e", "c", "k", "o", "u", "t">>,
      <<"p", "a", "y", "m", "e", "n", "t">>,
      <<"p", "a", "y">>,
      <<"b", "i", "l", "l", "i", "n", "g">>,
      <<"o", "r", "d", "e", "r">>,
      <<"p", "u", "r", "c", "h", "a", "s", "e">>,
      <<"i", "n", "v", "o", "i", "c", "e">>,
      <<"s", "u", "b", "s", "c", "r", "i", "b", "e">> }

\* PAYMENT_PROVIDERS
PAYMENT_PROVIDERS ==
    { <<"s", "t", "r", "i", "p", "e", ".", "c", "o", "m">>,
      <<"p", "a", "y", "p", "a", "l", ".", "c", "o", "m">>,
      <<"b", "r", "a", "i", "n", "t", "r", "e", "e", "p", "a", "y", "m", "e", "n", "t", "s", ".", "c", "o", "m">>,
      <<"s", "q", "u", "a", "r", "e", ".", "c", "o", "m">>,
      <<"a", "d", "y", "e", "n", ".", "c", "o", "m">>,
      <<"r", "a", "z", "o", "r", "p", "a", "y", ".", "c", "o", "m">> }

\* The alternatives of SENSITIVE_INPUT_PATTERNS.
SensitiveWords ==
    { <<"c", "a", "r", "d">>,
      <<"c", "c", "-">>,
      <<"c", "v", "v">>,
      <<"c", "v", "c">>,
      <<"e", "x", "p", "i", "r", "y">>,
      <<"b", "i", "l", "l", "i", "n", "g">>,
      <<"c", "a", "r", "d", "h", "o", "l", "d", "e", "r">> }

\* SENSITIVE_INPUT_PATTERNS.test(str)
SensitiveTest(str) == \E w \in SensitiveWords : Includes(ToLower(str), w)

\* isCrossOrigin(iframe): contentDocument is a document, null, or reading it
\* throws.
isCrossOrigin(iframe) ==
    IF iframe.contentDocument = "throws" THEN TRUE
    ELSE iframe.contentDocument = "null"

\* isLikelyPaymentPage() with the URL tested as it is, not lower-cased.
isLikelyPaymentPageOn_NoLowerCase(page) ==
    IF \E kw \in PAYMENT_KEYWORDS : Includes(page.href, kw) THEN TRUE
    ELSE IF \E i \in 1..Len(page.scripts) :
               /\ page.scripts[i].src # <<>>
               /\ \E p \in PAYMENT_PROVIDERS : Includes(page.scripts[i].src, p)
         THEN TRUE
    ELSE IF \E i \in 1..Len(page.inputs) :
               \/ SensitiveTest(page.inputs[i].name)
               \/ SensitiveTest(page.inputs[i].id)
               \/ SensitiveTest(page.inputs[i].placeholder)
               \/ SensitiveTest(page.inputs[i].ariaLabel)
         THEN TRUE
    ELSE IF \E i \in 1..Len(page.iframes) : isCrossOrigin(page.iframes[i]) THEN TRUE
    ELSE FALSE

\* isLikelyPaymentPage() on a page: its URL, its script elements, its
\* input / select / textarea elements and its iframes.
isLikelyPaymentPageOn(page) ==
    IF \E kw \in PAYMENT_KEYWORDS : Includes(ToLower(page.href), kw) THEN TRUE
    ELSE IF \E i \in 1..Len(page.scripts) :
               /\ page.scripts[i].src # <<>>
               /\ \E p \in PAYMENT_PROVIDERS : Includes(page.scripts[i].src, p)
         THEN TRUE
    ELSE IF \E i \in 1..Len(page.inputs) :
               \/ SensitiveTest(page.inputs[i].name)
               \/ SensitiveTest(page.inputs[i].id)
               \/ SensitiveTest(page.inputs[i].placeholder)
               \/ SensitiveTest(page.inputs[i].ariaLabel)
         THEN TRUE
    ELSE IF \E i \in 1..Len(page.iframes) : isCrossOrigin(page.iframes[i]) THEN TRUE
    ELSE FALSE

\* --- pages the heuristic is applied to

Hrefs ==
    { <<"h", "t", "t", "p", ":", "/", "/", "a", ".", "i", "o", "/", "b", "l", "o", "g">>,
      <<"h", "t", "t", "p", ":", "/", "/", "a", ".", "i", "o", "/", "C", "h", "e", "c", "k", "o", "u", "t">>,
      <<"h", "t", "t", "p", ":", "/", "/", "a", ".", "i", "o", "/", "p", "a", "p", "a", "y", "a">> }

Script(src) == [src |-> src]

ScriptLists ==
    { <<>>,
      <<Script(<<>>)>>,
      <<Script(<<"h", "t", "t", "p", "s", ":", "/", "/", "c", "d", "n", ".", "i", "o", "/", "a", "p", "p", ".", "j", "s">>)>>,
      <<Script(<<>>), Script(<<"h", "t", "t", "p", "s", ":", "/", "/", "j", "s", ".", "s", "t", "r", "i", "p", "e", ".", "c", "o", "m", "/", "v", "3", "/">>)>>,
      <<Script(<<"h", "t", "t", "p", "s", ":", "/", "/", "c", "d", "n", ".", "i", "o", "/", "a", "p", "p", ".", "j", "s">>), Script(<<"h", "t", "t", "p", "s", ":", "/", "/", "w", "w", "w", ".", "p", "a", "y", "p", "a", "l", ".", "c", "o", "m", "/", "s", "d", "k", "/", "j", "s">>)>> }

Input(name, id, placeholder, ariaLabel) ==
    [name |-> name, id |-> id, placeholder |-> placeholder, ariaLabel |-> ariaLabel]

InputLists ==
    { <<>>,
      <<Input(<<"e", "m", "a", "i", "l">>, <<>>, <<>>, <<>>)>>,
      <<Input(<<"c", "a", "r", "d", "n", "u", "m", "b", "e", "r">>, <<>>, <<>>, <<>>)>>,
      <<Input(<<>>, <<"C", "V", "V">>, <<>>, <<>>)>>,
      <<Input(<<>>, <<>>, <<"E", "x", "p", "i", "r", "y">>, <<>>)>>,
      <<Input(<<>>, <<>>, <<>>, <<"B", "i", "l", "l", "i", "n", "g", " ", "a", "d", "d", "r", "e", "s", "s">>)>>,
      <<Input(<<"e", "m", "a", "i", "l">>, <<>>, <<>>, <<>>), Input(<<>>, <<"c", "c", "-", "e", "x", "p">>, <<>>, <<>>)>> }

Iframe(contentDocument) == [contentDocument |-> contentDocument]

IframeLists ==
    { <<>>, <<Iframe("document")>>, <<Iframe("null")>>, <<Iframe("throws")>>,
      <<Iframe("document"), Iframe("throws")>> }

Pages ==
    { [href |-> h, scripts |-> sc, inputs |-> inp, iframes |-> fr] :
        h \in Hrefs, sc \in ScriptLists, inp \in InputLists, fr \in IframeLists }

PaymentInit ==
    /\ WidgetInit /\ serArg = NoCall /\ serResult = NoCall
    /\ callArg \in { [fn |-> "isLikelyPaymentPage", page |-> pg] : pg \in Pages }
    /\ callResult = NoCall

CallIsLikelyPaymentPage ==
    /\ callResult = NoCall
    /\ callResult' = [value |-> isLikelyPaymentPageOn(callArg.page)]
    /\ UNCHANGED callArg
    /\ WidgetUnchanged

NextPayment == CallIsLikelyPaymentPage

SpecPayment == PaymentInit /\ [][NextPayment]_vars

\* ------------------------------------------------------------------ embeds

\* Index of the first occurrence of character c in str at or after position
\* from, or 0.
FirstIndexOf(str, c, from) ==
    IF \E i \in from..Len(str) : str[i] = c
    THEN CHOOSE i \in from..Len(str) :
            str[i] = c /\ \A j \in from..(i - 1) : str[j] # c
    ELSE 0

ForbiddenHostChars == {" ", "[", "]", "<", ">", "/"}

\* new URL(src): it throws for a string with no scheme or with a malformed
\* host; a URL without an authority (about:blank) has the empty hostname;
\* the hostname is lower-cased and carries no port.
ParseURL(src) ==
    LET colon == FirstIndexOf(src, ":", 1)
        rest == SubSeq(src, colon + 1, Len(src))
        slash == FirstIndexOf(rest, "/", 3)
        authority == IF slash = 0 THEN SubSeq(rest, 3, Len(rest))
                     ELSE SubSeq(rest, 3, slash - 1)
        port == FirstIndexOf(authority, ":", 1)
        host == IF port = 0 THEN authority ELSE SubSeq(authority, 1, port - 1)
    IN  IF colon <= 1 \/ \E i \in 1..(colon - 1) : src[i] \in ForbiddenHostChars
        THEN [ok |-> FALSE, hostname |-> <<>>]
        ELSE IF ~(Len(rest) >= 2 /\ rest[1] = "/" /\ rest[2] = "/")
        THEN [ok |-> TRUE, hostname |-> <<>>]
        ELSE IF host = <<>> \/ \E i \in 1..Len(host) : host[i] \in ForbiddenHostChars
        THEN [ok |-> FALSE, hostname |-> <<>>]
        ELSE [ok |-> TRUE, hostname |-> ToLower(host)]

\* An iframe, embed or object element: src is the src property, data the
\* data property.
Embed(tagName, src, data) == [tagName |-> tagName, src |-> src, data |-> data]

NoEmbeds == [hasEmbeds |-> FALSE, embedHostnames |-> <<>>]

\* The forEach callback of getEmbeds with every hostname pushed, seen or not.
EmbedStep_NoDedupe(acc, el) ==
    LET src == IF el.tagName \in {"iframe", "embed"} THEN el.src
               ELSE IF el.tagName = "object" THEN el.data
               ELSE <<>>
        url == ParseURL(src)
    IN  [hasEmbeds |-> TRUE,
         embedHostnames |->
            IF src # <<>> /\ url.ok
            THEN Append(acc.embedHostnames, url.hostname)
            ELSE acc.embedHostnames]

\* The forEach callback of getEmbeds.
EmbedStep(acc, el) ==
    LET src == IF el.tagName \in {"iframe", "embed"} THEN el.src
               ELSE IF el.tagName = "object" THEN el.data
               ELSE <<>>
        url == ParseURL(src)
    IN  [hasEmbeds |-> TRUE,
         embedHostnames |->
            IF src # <<>> /\ url.ok
                          /\ ~\E i \in 1..Len(acc.embedHostnames) :
                                 acc.embedHostnames[i] = url.hostname
            THEN Append(acc.embedHostnames, url.hostname)
            ELSE acc.embedHostnames]

RECURSIVE EmbedLoop(_, _, _)
EmbedLoop(embeds, i, acc) ==
    IF i > Len(embeds) THEN acc
    ELSE EmbedLoop(embeds, i + 1, EmbedStep(acc, embeds[i]))

\* getEmbeds() on the document's iframe / embed / object elements in
\* document order.
getEmbeds(embeds) == EmbedLoop(embeds, 1, NoEmbeds)

\* --- documents getEmbeds is applied to

EmbedElements ==
    { Embed("iframe", <<>>, <<>>),
      Embed("iframe", <<"h", "t", "t", "p", "s", ":", "/", "/", "a", ".", "c", "o", "m", "/", "x">>, <<>>),
      Embed("iframe", <<"h", "t", "t", "p", "s", ":", "/", "/", "a", ".", "c", "o", "m", ":", "8", "0", "8", "0", "/", "y">>, <<>>),
      Embed("iframe", <<"h", "t", "t", "p", ":", "/", "/", "[", "b", "a", "d">>, <<>>),
      Embed("iframe", <<"a", "b", "o", "u", "t", ":", "b", "l", "a", "n", "k">>, <<>>),
      Embed("embed", <<"h", "t", "t", "p", ":", "/", "/", "A", ".", "c", "o", "m", "/", "z">>, <<>>),
      Embed("embed", <<"h", "t", "t", "p", "s", ":", "/", "/", "b", ".", "o", "r", "g", "/">>, <<>>),
      Embed("object", <<>>, <<"h", "t", "t", "p", "s", ":", "/", "/", "b", ".", "o", "r", "g", "/">>),
      Embed("object", <<"h", "t", "t", "p", "s", ":", "/", "/", "a", ".", "c", "o", "m", "/", "x">>, <<>>) }

MaxEmbeds == 3

EmbedLists == UNION { [1..n -> EmbedElements] : n \in 0..MaxEmbeds }

EmbedsInit ==
    /\ WidgetInit /\ serArg = NoCall /\ serResult = NoCall
    /\ callArg \in { [fn |-> "getEmbeds", embeds |-> es] : es \in EmbedLists }
    /\ callResult = NoCall

CallGetEmbeds ==
    /\ callResult = NoCall
    /\ callResult' = [value |-> getEmbeds(callArg.embeds)]
    /\ UNCHANGED callArg
    /\ WidgetUnchanged

NextEmbeds == CallGetEmbeds

SpecEmbeds == EmbedsInit /\ [][NextEmbeds]_vars

\* ---------------------------------------------------- selection descriptor

\* str.split(' '): the pieces between single space characters.
RECURSIVE SplitLoop(_, _, _, _)
SplitLoop(str, i, piece, acc) ==
    IF i > Len(str) THEN Append(acc, piece)
    ELSE IF str[i] = " " THEN SplitLoop(str, i + 1, <<>>, Append(acc, piece))
    ELSE SplitLoop(str, i + 1, Append(piece, str[i]), acc)

SplitOnSpace(str) == SplitLoop(str, 1, <<>>, <<>>)

Truthy(str) == str # <<>>

\* className.split(' ').filter(Boolean)[0], <<>> for undefined.
FirstClass(className) ==
    LET parts == SelectSeq(SplitOnSpace(className), Truthy)
    IN IF parts = <<>> THEN <<>> ELSE parts[1]

\* currentEl.className: a string, or for SVG elements an animated string
\* with a baseVal.
ClassString(value) == [type |-> "string", value |-> value]
ClassAnimated(baseVal) == [type |-> "SVGAnimatedString", value |-> baseVal]

\* One entry of pathParts: tag, tag#id or tag.firstClass.
Segment(tag, id, cls) == [tag |-> tag, id |-> id, cls |-> cls]

CrumbNames == {"document", "html", "body", "n1", "n2", "n3", "n4", "n5"}
CrumbChain == {"n1", "n2", "n3", "n4", "n5"}

CrumbNode(nodeType, tagName, id, className, parentNode) ==
    [nodeType |-> nodeType, tagName |-> tagName, id |-> id,
     className |-> className, parentNode |-> parentNode]

\* A document html > body > n1 > n2 > n3 > n4 > n5, n4 an svg element.
CrumbDocument(ids, bodyId, cls) ==
    [n \in CrumbNames |->
        CASE n = "document" -> CrumbNode(9, "", "", ClassString(<<>>), "null")
          [] n = "html" -> CrumbNode(1, "HTML", "", ClassString(cls), "document")
          [] n = "body" -> CrumbNode(1, "BODY", bodyId, ClassString(cls), "html")
          [] n = "n1" -> CrumbNode(1, "DIV", ids["n1"], ClassString(cls), "body")
          [] n = "n2" -> CrumbNode(1, "SPAN", ids["n2"], ClassString(cls), "n1")
          [] n = "n3" -> CrumbNode(1, "DIV", ids["n3"], ClassString(cls), "n2")
          [] n = "n4" -> CrumbNode(1, "svg", ids["n4"], ClassAnimated(cls), "n3")
          [] n = "n5" -> CrumbNode(1, "SPAN", ids["n5"], ClassString(cls), "n4")]

\* currentEl.parentElement
parentElement(doc, n) ==
    IF doc[n].parentNode # "null" /\ doc[doc[n].parentNode].nodeType = ELEMENT_NODE
    THEN doc[n].parentNode
    ELSE "null"

\* The class part of an id-less entry of pathParts.
ClassPart(node) ==
    LET className == IF node.className.type = "string" THEN node.className.value
                     ELSE IF node.className.type = "SVGAnimatedString"
                          THEN node.className.value
                          ELSE <<>>
    IN IF className # <<>> THEN FirstClass(className) ELSE <<>>

RECURSIVE CrumbLoop(_, _, _, _)
\* for (let i = 0; i < 4 && currentEl; i++) of selectElement; unshift is
\* prepending.
CrumbLoop(doc, currentEl, i, pathParts) ==
    IF ~(i < 4 /\ currentEl # "null") THEN pathParts
    ELSE LET node == doc[currentEl]
             tag == TagLower(node.tagName)
         IN IF node.id # ""
            THEN <<Segment(tag, node.id, <<>>)>> \o pathParts
            ELSE LET name == Segment(tag, "", ClassPart(node))
                     next == parentElement(doc, currentEl)
                 IN IF next = "body" \/ next = "html"
                    THEN <<name>> \o pathParts
                    ELSE CrumbLoop(doc, next, i + 1, <<name>> \o pathParts)

\* pathParts.join(' > ') for the clicked element el.
descriptorOf(doc, el) == [parts |-> CrumbLoop(doc, el, 0, <<>>), separator |-> " > "]

\* --- documents the descriptor is computed on

CrumbIds == [CrumbChain -> {"", "k"}]

ClassNames ==
    { <<>>,
      <<"b", "t", "n">>,
      <<"b", "t", "n", " ", "b", "i", "g">>,
      <<" ", " ", "b", "t", "n", " ", " ", "b", "i", "g">>,
      <<" ", " ", " ">>,
      <<"b", "t", "n", "\t", "b", "i", "g">> }

CrumbDocuments ==
    { CrumbDocument(ids, b, cls) : ids \in CrumbIds, b \in {"", "app"}, cls \in ClassNames }

CrumbInit ==
    /\ WidgetInit /\ serArg = NoCall /\ serResult = NoCall
    /\ callArg \in { [fn |-> "descriptor", doc |-> d, element |-> n] :
                        d \in CrumbDocuments, n \in CrumbNames \ {"document"} }
    /\ callResult = NoCall

CallDescriptor ==
    /\ callResult = NoCall
    /\ callResult' = [value |-> descriptorOf(callArg.doc, callArg.element)]
    /\ UNCHANGED callArg
    /\ WidgetUnchanged

NextCrumb == CallDescriptor

SpecCrumb == CrumbInit /\ [][NextCrumb]_vars

\* ------------------------------------------------------------------ claims

\* C1: when pick mode has been entered and destroy() is called before picking
\* ends (the arming timer pending or already fired), then once destroy has run
\* no event blocker is installed on window.
C1_DestroyMidPickUnblocks ==
    [][(isPicking /\ CallDestroy) => blockers' = 0]_vars

\* C2: in every reachable state the event blocker is installed on window if
\* and only if isPicking is true.
C2_BlockerIffPicking == (blockers > 0) <=> isPicking

\* What a client-side navigation to path p does to state s.
AfterNavigation(s, p) == historyCall([s EXCEPT !.path = p], s.history)

\* C3: after destroy() has run, history.pushState / replaceState are the
\* functions in place before the first init, the popstate listener and the
\* Escape listener are removed, the widget is gone and no navigation brings
\* it back.
C3_DestroyRestoresHooks ==
    [][CallDestroy =>
          /\ history' = 0
          /\ ~routeListener'
          /\ escListeners' = 0
          /\ hostElement' = 0
          /\ \A p \in Paths : AfterNavigation(Cur', p).hostElement = 0]_vars

\* The widget is displayed: the host element exists and is not hidden.
Displayed(s) == s.hostElement # 0 /\ s.hostDisplay # "none"

BothPathRules(c) == c.includeSet /\ c.excludeSet

\* C4: init(config) with both includePaths and excludePaths set records a
\* diagnostic and aborts: the configuration is not stored, no hook is
\* installed and no widget is rendered.
C4_BothPathRulesAbortInit ==
    [][\A c \in Configs :
          (BothPathRules(c) /\ InitWith(c)) =>
              /\ console' # {}
              /\ config' = config
              /\ history' = history
              /\ routeListener' = routeListener
              /\ hostElement' = hostElement
              /\ hostDisplay' = hostDisplay]_vars

\* init(c) with an apiKey.
ValidInit == \E c \in Configs : c.apiKey # "" /\ InitWith(c)

\* The page is sensitive and the configuration does not allow sensitive pages.
SensitiveAndNotAllowed(s) ==
    isLikelyPaymentPage(s) /\ ~s.config.allowSensitivePages

\* C5: while allowSensitivePages is not true, an init(), open() or navigation
\* never leaves the widget displayed on a page that isLikelyPaymentPage()
\* classifies as sensitive at that moment, and a Pick Element request on such
\* a page does not start picking.
C5_SensitivePagesSkipped ==
    [][/\ (ValidInit \/ CallOpen \/ PushState \/ PopState)
            => (SensitiveAndNotAllowed(Cur') => ~Displayed(Cur'))
       /\ (ClickPick /\ SensitiveAndNotAllowed(Cur))
            => (isPicking' = isPicking /\ blockers' = blockers)]_vars

\* A pattern of a path rule matches the path.
Matches(pattern, p) == RegexValid(pattern) /\ RegexTest(pattern, p)

\* The route qualifies for the widget: no excludePaths pattern matches, some
\* includePaths pattern matches when includePaths is non-empty, and the page
\* is not sensitive or sensitive pages are allowed.
Qualifies(s) ==
    /\ ~(s.config.excludeSet /\
         \E i \in 1..Len(s.config.excludePaths) :
             Matches(s.config.excludePaths[i], s.path))
    /\ (s.config.includeSet /\ Len(s.config.includePaths) > 0)
          => \E i \in 1..Len(s.config.includePaths) :
                 Matches(s.config.includePaths[i], s.path)
    /\ ~SensitiveAndNotAllowed(s)

\* The widget is initialised: the hooks of init are in place.
Hooked(s) == s.routeListener /\ s.history >= 1

\* C6: while the widget is initialised, after init and after every pushState,
\* replaceState and popstate the widget is displayed if and only if the route
\* qualifies; a host element that exists is kept (hidden or shown again), never
\* replaced.
C6_VisibilityFollowsRoute ==
    [][((ValidInit \/ PushState \/ PopState) /\ Hooked(Cur')) =>
          /\ Displayed(Cur') <=> Qualifies(Cur')
          /\ hostElement # 0 => hostElement' = hostElement]_vars

\* An initialised widget hidden, not destroyed, on a route that does not qualify.
C6_Witness ==
    /\ Hooked(Cur) /\ hostElement # 0 /\ hostDisplay = "none"
    /\ ~Qualifies(Cur)

FormControls == {"input", "textarea", "select"}

RECURSIVE NoValueOnControls(_)
NoValueOnControls(node) ==
    /\ node.tag \in FormControls => N_value \notin DOMAIN node.attributes
    /\ \A i \in 1..Len(node.children) : NoValueOnControls(node.children[i])

\* C7: in every node, at every depth, of a serialized tree the value
\* attribute of an input, textarea or select is omitted.
C7_ValueAttributeOmitted ==
    serResult.tag # "none" => NoValueOnControls(serResult)

IsHTMLElement(el) == el.isHTMLElement

\* Every attribute of el whose name matches the redaction pattern is
\* "[REDACTED]" in the node serialized from el and never its original value;
\* likewise for the serialized children of el.
RECURSIVE Redacted(_, _)
Redacted(el, node) ==
    /\ \A i \in 1..Len(el.attributes) :
          RedactTest(el.attributes[i].name) =>
              /\ el.attributes[i].name \in DOMAIN node.attributes
              /\ node.attributes[el.attributes[i].name] = "[REDACTED]"
              /\ node.attributes[el.attributes[i].name] # el.attributes[i].value
    /\ \A j \in 1..Len(node.children) :
          Redacted(SelectSeq(el.children, IsHTMLElement)[j], node.children[j])

\* C8: in every node, at every depth, of a serialized tree every attribute
\* whose name matches the redaction pattern (case-insensitive, anywhere in the
\* name) has the value "[REDACTED]", never its original value.
C8_MatchingAttributesRedacted ==
    serResult.tag # "none" => Redacted(serArg.el, serResult)

\* A serialized tree with a redacted upper-case attribute two levels down.
C8_Witness ==
    /\ serResult.tag # "none"
    /\ Len(serResult.children) > 0
    /\ Len(serResult.children[1].children) > 0
    /\ N_PIN \in DOMAIN serResult.children[1].children[1].attributes
    /\ serResult.children[1].children[1].attributes[N_PIN] = "[REDACTED]"

\* C9: when the fetch of a submit settles exactly one notification is shown:
\* success if the send succeeded, error if the call was rejected or the
\* response was not a success.
C9_OneNotificationPerSubmit ==
    [][\A i \in 1..Len(inflight), outcome \in Outcomes :
          SettleWith(i, outcome) =>
              notifications' = << IF outcome = "ok" THEN "success" ELSE "error" >>]_vars

\* sendFeedback is invoked: the Send button, or Enter on a non-empty text.
SubmitInvoked == ClickSend \/ (text # "" /\ PressEnter)

\* C10: on every submit the modal is closed, the selection and its highlight
\* are cleared and the textarea is emptied while the fetch is still in
\* flight, and the report in flight carries the selection and the text as
\* they were when submit was invoked.
C10_OptimisticClose ==
    [][SubmitInvoked =>
          /\ modal' = "none"
          /\ selectedElement' = "null"
          /\ ~selectionHighlight'
          /\ text' = ""
          /\ Len(inflight') = Len(inflight) + 1
          /\ inflight'[Len(inflight')] =
                [feedback |-> text,
                 selected |-> IF selectedElement = "null" THEN "PAGE_FEEDBACK"
                              ELSE selectedElement,
                 path |-> path]]_vars

\* A report on a picked element in flight, with the editing UI already cleared.
C10_Witness ==
    /\ Len(inflight) > 0
    /\ inflight[1].selected \in PageElements
    /\ inflight[1].feedback = "t"
    /\ modal = "none" /\ selectedElement = "null" /\ ~selectionHighlight /\ text = ""

\* What a click on target t during Picking must do: prevented and stopped,
\* and either Selected with exactly t (an eligible target) or still Picking
\* with the selection unchanged (widget host, cross-origin embed).
ClickSettled(t) ==
    /\ event'.type = "click" /\ event'.prevented
    /\ IF t \in PageElements
       THEN ~isPicking' /\ selectedElement' = t /\ modal' = "flex"
       ELSE isPicking' /\ selectedElement' = selectedElement /\ modal' = modal

\* C11: while the session is Picking, every click on the page either
\* completes a selection (Selected with exactly that element, the editor open)
\* or is fully suppressed (still Picking, selection unchanged), and in both
\* cases its default is prevented and its propagation stopped.  Stated for
\* the part of Picking in which the click listener is attached (after the
\* arming delay of startPicking).
C11_ClickSelectsOrSuppressed ==
    [][\A t \in Targets :
          (isPicking /\ pickListeners > 0 /\ PageClickOn(t)) => ClickSettled(t)]_vars

\* C12: Escape while Picking cancels to Idle without opening the editor;
\* Escape while the editor is open closes it without any network send; in
\* both cases afterwards no element is selected and the event blocker is not
\* installed.
C12_EscapeCancels ==
    [][PressEscape =>
          /\ isPicking => (~isPicking' /\ modal' # "flex")
          /\ (~isPicking /\ modal = "flex") =>
                 (modal' # "flex" /\ inflight' = inflight)
          /\ (isPicking \/ modal = "flex") =>
                 (selectedElement' = "null" /\ blockers' = 0)]_vars

\* The allow-list: Escape, F5 and Ctrl+R / Cmd+R keyboard events.
AllowListed(ev) ==
    /\ ev.type \in {"keydown", "keyup", "keypress"}
    /\ ev.key \in {"Escape", "F5"} \/ (ev.mod /\ ev.key \in {"r", "R"})

\* C13: while Picking, keyboard events for Escape, F5 and Ctrl+R / Cmd+R are
\* let through untouched and every other keydown/keyup/keypress,
\* mousedown/mouseup, touchstart/touchend and focus/focusin event is prevented
\* and stopped; in every other state none of these events is altered.
C13_BlockerAllowList ==
    [][\A ev \in PageEvents :
          PageEventOf(ev) =>
              /\ event'.type = ev.type
              /\ event'.prevented <=> (isPicking /\ ~AllowListed(ev))]_vars

\* C14: destroy() never raises an exception into the host page: called with
\* the widget rendered - Idle, Picking before or after the pick listeners are
\* armed, Selected, or hidden by a route - it completes every teardown step:
\* the Escape listener registered by open and the popstate listener are
\* removed and the history functions saved by init are restored.
C14_DestroyNeverThrows ==
    [][(hostElement # 0 /\ CallDestroy) =>
          /\ ~threw'
          /\ ~escRef'
          /\ ~routeListener'
          /\ saved' = -1]_vars

\* C15: destroy() is idempotent: a second destroy() immediately after a first
\* leaves every piece of widget state (host element, listeners, history
\* functions, selection, picking flag, event blocker) exactly as the first
\* call left it and raises no error.
C15_DestroyIdempotent ==
    [][CallDestroy =>
          LET second == destroy(Begin(Cur'))
          IN /\ ~second.threw
             /\ second = Begin(Cur')]_vars

\* A first destroy() has just run on a rendered widget and raised midway,
\* leaving the Escape listener and the history wrappers in place.
C15_Witness ==
    /\ hostElement = 0 /\ hostsCreated > 0 /\ event = NoEvent
    /\ threw /\ escRef /\ history > 0

\* C16: open() is idempotent: when the widget host already exists, open()
\* creates no second host element and registers no additional Escape
\* listener, so in every reachable state at most one widget host element is
\* attached to the document; open() before any successful init() creates
\* nothing.
C16_OpenIdempotent ==
    /\ [](hostsAttached <= 1)
    /\ [][CallOpen =>
             /\ hostElement # 0 =>
                    /\ hostElement' = hostElement
                    /\ hostsCreated' = hostsCreated
                    /\ hostsAttached' = hostsAttached
                    /\ escListeners' = escListeners
                    /\ modal' = modal /\ fab' = fab
             /\ config = NoConfig =>
                    /\ hostElement' = 0 /\ hostsCreated' = 0
                    /\ hostsAttached' = 0 /\ escListeners' = 0]_vars

\* open() was called before any successful init(): nothing was created.
C16_Witness ==
    /\ config = NoConfig /\ "callInitFirst" \in console
    /\ hostElement = 0 /\ hostsAttached = 0 /\ escListeners = 0

\* C17: init(config) with a missing or empty apiKey records a diagnostic and
\* changes nothing else: the stored configuration is unchanged, no widget is
\* rendered, no popstate listener is added, history.pushState / replaceState
\* are not patched, and no exception is thrown.
C17_InitWithoutKeyAborts ==
    [][\A c \in Configs :
          (c.apiKey = "" /\ InitWith(c)) =>
              /\ console' = {"apiKeyRequired"}
              /\ ~threw'
              /\ Begin(Cur') = Begin(Cur)]_vars

\* init without an apiKey was called on an initialised, rendered widget and
\* only logged.
C17_Witness ==
    /\ console = {"apiKeyRequired"} /\ ~threw
    /\ config # NoConfig /\ hostElement # 0 /\ history = 1

\* The patterns of a rule that are valid regular expressions, in order.
ValidPatterns(pats) == SelectSeq(pats, RegexValid)

\* An invalid pattern of pats is reached by a scan for path p: no pattern
\* before it matches.
InvalidReached(pats, p) ==
    \E i \in 1..Len(pats) :
        /\ ~RegexValid(pats[i])
        /\ \A j \in 1..(i - 1) : ~Matches(pats[j], p)

\* Some valid pattern of pats matches p.
SomeValidMatches(pats, p) ==
    \E i \in 1..Len(ValidPatterns(pats)) : RegexTest(ValidPatterns(pats)[i], p)

\* The visibility the valid patterns alone decide.
QualifiesByValidPatterns(s) ==
    /\ ~(s.config.excludeSet /\ SomeValidMatches(s.config.excludePaths, s.path))
    /\ (s.config.includeSet /\ Len(s.config.includePaths) > 0)
          => SomeValidMatches(s.config.includePaths, s.path)
    /\ ~SensitiveAndNotAllowed(s)

\* C18: an includePaths or excludePaths entry that is not a valid regular
\* expression is logged and treated as non-matching: the remaining patterns
\* of the same rule set are still evaluated and alone decide visibility, and
\* no exception escapes init or a navigation hook.
C18_InvalidPatternSkipped ==
    [][((ValidInit \/ PushState \/ PopState) /\ Hooked(Cur')) =>
          /\ ~threw'
          /\ Displayed(Cur') <=> QualifiesByValidPatterns(Cur')
          /\ (config'.excludeSet /\ InvalidReached(config'.excludePaths, path'))
                => "invalidExclude" \in console'
          /\ (/\ config'.includeSet
              /\ InvalidReached(config'.includePaths, path')
              /\ ~(config'.excludeSet /\
                     SomeValidMatches(config'.excludePaths, path')))
                => "invalidInclude" \in console']_vars

\* A rendered widget hidden on /admin by the valid exclude pattern that
\* follows an invalid one, the invalid one logged.
C18_Witness ==
    /\ Hooked(Cur) /\ "invalidExclude" \in console
    /\ path = "/admin" /\ hostElement # 0 /\ hostDisplay = "none"

\* C19: a report submitted from the editor opened by a pick carries the
\* picked element's payload, and a report submitted from the editor opened by
\* Page Feedback (no element picked) always carries the page-level marker with
\* no element payload - after any prior sequence of picks, cancels, submits,
\* destroy and re-open.
C19_ReportMatchesEditor ==
    [][SubmitInvoked =>
          /\ Len(inflight') = Len(inflight) + 1
          /\ IF repickBtn
             THEN /\ selectedElement \in PageElements
                  /\ inflight'[Len(inflight')].selected = selectedElement
             ELSE inflight'[Len(inflight')].selected = "PAGE_FEEDBACK"]_vars

\* The serialized node has, down to `depth` levels below the root, exactly
\* one child per element child of el, in document order, and no children at
\* level `depth`.
RECURSIVE DepthBounded(_, _, _, _)
DepthBounded(el, node, depth, level) ==
    IF level < depth
    THEN /\ Len(node.children) = Len(el.children)
         /\ \A i \in 1..Len(node.children) :
               /\ node.children[i].tag = TagLower(el.children[i].tagName)
               /\ DepthBounded(el.children[i], node.children[i], depth, level + 1)
    ELSE node.children = <<>>

\* C20: serializeElement(el, depth) returns a tree nested at most `depth`
\* levels below its root: with depth 0 the root has no children; for depth
\* d >= 1 every node at level < d has exactly one serialized child per
\* element child, in document order, and every node at level d has no
\* children.
C20_DepthBounded ==
    serResult.tag # "none" => DepthBounded(serArg.el, serResult, serArg.depth, 0)

\* getXPath has returned for element e of document d.
XPathReturned == callArg # NoCall /\ callArg.fn = "getXPath" /\ callResult # NoCall

\* The position of node n among the child nodes of its parent.
ChildPosition(doc, n) ==
    CHOOSE i \in 1..Len(doc[doc[n].parentNode].childNodes) :
        doc[doc[n].parentNode].childNodes[i] = n

\* k: n is the k-th child with its tag name among the element children of
\* its parent.
SameTagIndex(doc, n) ==
    Cardinality({ i \in 1..ChildPosition(doc, n) :
        LET sib == doc[doc[doc[n].parentNode].childNodes[i]]
        IN sib.nodeType = ELEMENT_NODE /\ sib.tagName = doc[n].tagName })

\* n has no id and is a child of an element.
IdLessChild(doc, n) ==
    /\ doc[n].id = ""
    /\ doc[n].parentNode # "null"
    /\ doc[doc[n].parentNode].nodeType = ELEMENT_NODE

\* <parent path>/<lowercase tag>[k]
PositionalPath(doc, n) ==
    getXPath(doc, doc[n].parentNode)
        \o <<"/", TagLower(doc[n].tagName), "[", NumberToString(SameTagIndex(doc, n)), "]">>

\* C21 (as stated): for an element without id that is the k-th child with its
\* tag name among the element children of a parent, getXPath returns
\* getXPath(parent) followed by /<lowercase tag>[k].
C21_PositionalPath ==
    (XPathReturned /\ IdLessChild(callArg.doc, callArg.element)) =>
        callResult.value = PositionalPath(callArg.doc, callArg.element)

\* C21 (amended): for an element without id, other than document.body, that
\* is the k-th child with its tag name among the element children of a parent
\* element, getXPath returns getXPath(parent) followed by /<lowercase tag>[k];
\* siblings with a different tag name and non-element sibling nodes do not
\* affect k.
C21_PositionalPathBelowBody ==
    (/\ XPathReturned
     /\ IdLessChild(callArg.doc, callArg.element)
     /\ callArg.element # DocumentBody) =>
        callResult.value = PositionalPath(callArg.doc, callArg.element)

\* The second span of the container, after a span, a text node and a div:
\* its address ends in /span[2].
C21_Witness ==
    /\ XPathReturned /\ callArg.element = "s2" /\ callArg.doc["s2"].id = ""
    /\ callArg.doc["c"].id = ""
    /\ callResult.value = <<"/html/body", "/", "div", "[", "1", "]", "/", "span", "[", "2", "]">>

\* The nearest ancestor of n that has an id, "null" if there is none.
RECURSIVE NearestIdAncestor(_, _)
NearestIdAncestor(doc, n) ==
    LET p == doc[n].parentNode
    IN IF p = "null" THEN "null"
       ELSE IF doc[p].id # "" THEN p
       ELSE NearestIdAncestor(doc, p)

\* document.body lies on the parent chain from n (included) up to its
\* ancestor a (excluded).
RECURSIVE BodyBelow(_, _, _)
BodyBelow(doc, n, a) ==
    \/ n = DocumentBody
    \/ doc[n].parentNode # a /\ BodyBelow(doc, doc[n].parentNode, a)

StartsWith(str, prefix) ==
    Len(prefix) <= Len(str) /\ SubSeq(str, 1, Len(prefix)) = prefix

\* C22 (as stated): for any element with a non-empty id, getXPath returns
\* exactly //*[@id="<id>"] regardless of the element's position or ancestors,
\* and the address of any id-less descendant starts with the ID-anchored
\* address of its nearest ancestor that has an id.
C22_IdAnchored ==
    XPathReturned =>
        LET doc == callArg.doc
            n == callArg.element
            a == NearestIdAncestor(doc, n)
        IN /\ doc[n].id # "" => callResult.value = IdPath(doc[n].id)
           /\ (doc[n].id = "" /\ a # "null") =>
                 StartsWith(callResult.value, IdPath(doc[a].id))

\* C22 (amended): for any element with a non-empty id, getXPath returns
\* exactly //*[@id="<id>"] regardless of the element's position or ancestors,
\* and the address of an id-less descendant starts with the ID-anchored
\* address of its nearest ancestor that has an id unless an id-less
\* document.body is the descendant or lies between the two (the address then
\* starts with /html/body).
C22_IdAnchoredBelowBody ==
    XPathReturned =>
        LET doc == callArg.doc
            n == callArg.element
            a == NearestIdAncestor(doc, n)
        IN /\ doc[n].id # "" => callResult.value = IdPath(doc[n].id)
           /\ (doc[n].id = "" /\ a # "null") =>
                 IF BodyBelow(doc, n, a)
                 THEN StartsWith(callResult.value, BodyPath)
                 ELSE StartsWith(callResult.value, IdPath(doc[a].id))

\* An id-less span whose address is anchored at its parent's id.
C22_Witness ==
    /\ XPathReturned /\ callArg.element = "s1"
    /\ callArg.doc["s1"].id = "" /\ callArg.doc["c"].id = "main"
    /\ callResult.value = IdPath("main") \o <<"/", "span", "[", "1", "]">>

\* C23 (as stated): for document.body, getXPath returns the fixed body path
\* constant /html/body.
C23_BodyPath ==
    (XPathReturned /\ callArg.element = DocumentBody) =>
        callResult.value = BodyPath

\* C23 (amended): for document.body without an id, getXPath returns the
\* fixed body path constant /html/body (a body with an id gets the
\* ID-anchored form).
C23_IdLessBodyPath ==
    (XPathReturned /\ callArg.element = DocumentBody) =>
        callResult.value =
            IF callArg.doc[DocumentBody].id = "" THEN BodyPath
            ELSE IdPath(callArg.doc[DocumentBody].id)

\* getXPath(document.body) returned /html/body, in a document whose html
\* element has an id.
C23_Witness ==
    /\ XPathReturned /\ callArg.element = DocumentBody
    /\ callArg.doc[DocumentBody].id = "" /\ callArg.doc["html"].id = "root"
    /\ callResult.value = <<"/html/body">>

\* The text of the node serialized from el, and of the nodes below it, is as
\* C24 says.
RECURSIVE TextAsClaimed(_, _)
TextAsClaimed(el, node) ==
    /\ IF /\ Len(el.children) = 0
          /\ node.tag \notin {"input", "textarea", "select"}
          /\ ~el.isContentEditable
       THEN /\ Len(el.textContent) <= 200 => node.text = el.textContent
            /\ Len(el.textContent) > 200 =>
                  /\ Len(node.text) = 200
                  /\ \A i \in 1..200 : node.text[i] = el.textContent[i]
       ELSE node.text = <<>>
    /\ \A j \in 1..Len(node.children) :
          TextAsClaimed(SelectSeq(el.children, IsHTMLElement)[j], node.children[j])

\* C24: the text of a serialized node is non-empty only for a node with zero
\* child elements that is not input/textarea/select and not content-editable;
\* for such a node it is the text content when that is at most 200 code units
\* long, and exactly its first 200 code units when it is longer.
C24_TextTruncated ==
    serResult.tag # "none" => TextAsClaimed(serArg.el, serResult)

\* A leaf with 201 code units of text serialized with 200.
C24_Witness ==
    /\ serResult.tag # "none"
    /\ Len(serArg.el.textContent) = 201 /\ Len(serResult.text) = 200

\* --- C25

PaymentReturned == callArg.fn = "isLikelyPaymentPage" /\ callResult # NoCall

UrlSignal(page) == \E kw \in PAYMENT_KEYWORDS : Includes(ToLower(page.href), kw)

ScriptSignal(page) ==
    \E i \in 1..Len(page.scripts), p \in PAYMENT_PROVIDERS :
        Includes(page.scripts[i].src, p)

InputSignal(page) ==
    \E i \in 1..Len(page.inputs) :
        \E a \in {page.inputs[i].name, page.inputs[i].id,
                  page.inputs[i].placeholder, page.inputs[i].ariaLabel} :
            \E w \in SensitiveWords : Includes(ToLower(a), w)

IframeSignal(page) ==
    \E i \in 1..Len(page.iframes) : page.iframes[i].contentDocument \in {"null", "throws"}

\* C25: isLikelyPaymentPage() returns true exactly when at least one of the
\* four signals holds (keyword in the lower-cased URL, provider domain in a
\* script source, sensitive name / id / placeholder / aria-label on a form
\* control, cross-origin iframe including one whose document access throws),
\* whatever the order of the signals, and the call changes no widget state.
C25_PaymentSignals ==
    /\ [](PaymentReturned =>
            (callResult.value <=>
                (\/ IframeSignal(callArg.page)
                 \/ InputSignal(callArg.page)
                 \/ ScriptSignal(callArg.page)
                 \/ UrlSignal(callArg.page))))
    /\ [][CallIsLikelyPaymentPage => Cur' = Cur]_vars

\* A page whose only signal is an iframe whose document access throws, and
\* one whose only signal is a capitalised keyword in the URL, both answered.
C25_Witness ==
    /\ PaymentReturned
    /\ callResult.value
    /\ ~ScriptSignal(callArg.page) /\ ~InputSignal(callArg.page)
    /\ \/ /\ ~UrlSignal(callArg.page)
          /\ callArg.page.iframes = <<Iframe("throws")>>
       \/ /\ ~IframeSignal(callArg.page)
          /\ callArg.page.href = <<"h", "t", "t", "p", ":", "/", "/", "a", ".", "i", "o", "/", "C", "h", "e", "c", "k", "o", "u", "t">>

\* --- C26

EmbedsReturned == callArg.fn = "getEmbeds" /\ callResult # NoCall

SourceOf(el) == IF el.tagName = "object" THEN el.data ELSE el.src

Parseable(el) == SourceOf(el) # <<>> /\ ParseURL(SourceOf(el)).ok

HostnameOf(el) == ParseURL(SourceOf(el)).hostname

\* Position in embeds of the first element with a parseable source on host h.
FirstWithHost(embeds, h) ==
    CHOOSE i \in 1..Len(embeds) :
        /\ Parseable(embeds[i]) /\ HostnameOf(embeds[i]) = h
        /\ \A j \in 1..(i - 1) : ~(Parseable(embeds[j]) /\ HostnameOf(embeds[j]) = h)

\* C26: getEmbeds() returns hasEmbeds = true exactly when the document has an
\* iframe, embed or object element, whatever its source, and embedHostnames
\* lists the hostnames of the parseable sources once each in the order of
\* their first occurrence; empty and unparseable sources add nothing.
C26_EmbedsReported ==
    EmbedsReturned =>
        LET embeds == callArg.embeds
            hosts == callResult.value.embedHostnames
        IN  /\ callResult.value.hasEmbeds <=> (Len(embeds) > 0)
            /\ \A i, j \in 1..Len(hosts) : hosts[i] = hosts[j] => i = j
            /\ {hosts[i] : i \in 1..Len(hosts)}
                  = {HostnameOf(embeds[k]) : k \in {n \in 1..Len(embeds) : Parseable(embeds[n])}}
            /\ \A i, j \in 1..Len(hosts) :
                  i < j => FirstWithHost(embeds, hosts[i]) < FirstWithHost(embeds, hosts[j])

\* Three embeds were scanned: one with a source that does not parse, two on
\* the same host through different URLs, and that host is reported once.
C26_Witness ==
    /\ EmbedsReturned
    /\ Len(callArg.embeds) = MaxEmbeds
    /\ \E i \in 1..Len(callArg.embeds) :
          SourceOf(callArg.embeds[i]) # <<>> /\ ~Parseable(callArg.embeds[i])
    /\ \E i, j \in 1..Len(callArg.embeds) :
          /\ i # j
          /\ Parseable(callArg.embeds[i]) /\ Parseable(callArg.embeds[j])
          /\ SourceOf(callArg.embeds[i]) # SourceOf(callArg.embeds[j])
    /\ callResult.value = [hasEmbeds |-> TRUE, embedHostnames |-> <<<<"a", ".", "c", "o", "m">>>>]

\* --- C27

\* C27: every submit starts exactly one fetch, nothing but a submit starts
\* one, and a settled fetch, failed or not, leaves the requests in flight
\* without its report: nothing is sent again, queued or kept.
C27_OneSendPerSubmit ==
    [][/\ SubmitInvoked => Len(inflight') = Len(inflight) + 1
       /\ Len(inflight') > Len(inflight) => SubmitInvoked
       /\ \A i \in 1..Len(inflight), outcome \in Outcomes :
             SettleWith(i, outcome) =>
                 inflight' = SubSeq(inflight, 1, i - 1) \o SubSeq(inflight, i + 1, Len(inflight))]_vars

\* A send failed: the error was logged and notified, and nothing is in
\* flight.
C27_Witness ==
    /\ "sendFailed" \in console
    /\ notifications = <<"error">>
    /\ inflight = <<>>

\* --- C28

\* C28: whenever the session is not picking, no pick-mode listener (document
\* mouseover, capturing document click, window resize) is attached; a pick
\* cancelled or destroyed before its arming delay elapsed attaches nothing
\* afterwards.
C28_NoListenersOutsidePicking == ~isPicking => pickListeners = 0

\* --- C29

\* C29: when destroy() has run while a send was in flight, the settlement of
\* that send, success or failure, raises nothing out of sendFeedback (no
\* uncaught exception, no rejected promise) and creates no widget DOM.
C29_SettleAfterDestroy ==
    [][(FetchSettles /\ hostElement = 0) =>
          (~threw' /\ hostElement' = 0 /\ hostsAttached' = hostsAttached)]_vars

\* --- C30

\* C30: picking does not survive a navigation that hides the widget: in
\* every state in which the rendered widget is hidden, the session is not
\* picking and the global event blocker is not installed.
C30_HiddenNotPicking ==
    (hostElement # 0 /\ hostDisplay = "none") => (~isPicking /\ blockers = 0)

\* --- C31

\* C31: a request to start picking (Pick Element or Re-pick) made while the
\* session is already picking is a no-op: it installs no second event
\* blocker and schedules or attaches no second set of pick listeners.
C31_PickWhilePickingNoOp ==
    [][(isPicking /\ (ClickPick \/ ClickRepick)) =>
          (/\ blockers' = blockers
           /\ timers' = timers
           /\ pickListeners' = pickListeners)]_vars

\* --- C32

\* C32: whether a click on Pick element starts picking follows the
\* classification of the page at the moment of the click: on a page that is
\* then sensitive (and sensitive pages are not allowed) nothing starts, on
\* any other page picking starts.
C32_PickGateFollowsPage ==
    [][ClickPick =>
          IF isLikelyPaymentPage(Cur) /\ ~config.allowSensitivePages
          THEN isPicking' = isPicking /\ blockers' = blockers
          ELSE isPicking' /\ blockers' = blockers + 1]_vars

\* --- C33

\* C33: the click that requests picking (Pick element or Re-pick) never
\* selects anything, also when pick listeners of an earlier pick are still
\* attached; an element becomes selected only by a page click made while the
\* session is picking.
C33_RequestClickNotCaptured ==
    [][/\ (ClickPick \/ ClickRepick) =>
             (/\ selectedElement' \in {"null", selectedElement}
              /\ selectionHighlight' => selectionHighlight
              /\ modal' # "flex")
       /\ (selectedElement' # "null" /\ selectedElement' # selectedElement) =>
             (isPicking /\ ClickPage)]_vars

\* Picking was requested while the listeners of an earlier, cancelled pick
\* were attached: the session is picking, its arming timer is pending, and
\* nothing is selected.
C33_Witness ==
    /\ hostElement # 0
    /\ isPicking /\ timers = 1 /\ pickListeners = 1
    /\ modal = "none" /\ fab = "none"
    /\ selectedElement = "null" /\ ~selectionHighlight

\* --- C34

\* C34: a window resize while the session is picking cancels the pick (not
\* picking, blocker removed, editor not opened, nothing raised); a resize in
\* any other state changes no session state: selection, highlight, editor,
\* typed text, buttons, blocker and listeners stay as they were.
C34_ResizeCancelsPicking ==
    [][WindowResize =>
          IF isPicking
          THEN /\ ~isPicking' /\ blockers' = 0
               /\ modal' # "flex" /\ selectedElement' = "null"
               /\ ~threw'
          ELSE /\ isPicking' = isPicking /\ blockers' = blockers
               /\ modal' = modal /\ fab' = fab /\ fabOpen' = fabOpen
               /\ selectedElement' = selectedElement
               /\ selectionHighlight' = selectionHighlight
               /\ text' = text /\ repickBtn' = repickBtn
               /\ pickListeners' = pickListeners /\ timers' = timers]_vars

\* --- C35

\* C35: in every state at most one element is selected and at most one
\* selection highlight box is in the document, and a box is there only while
\* an element is selected, as the box the widget keeps track of (so a new
\* selection leaves no box of the previous one).
C35_OneSelectionOneHighlight ==
    /\ selectedElement \in PageElements \cup {"null"}
    /\ highlightBoxes \in {0, 1}
    /\ highlightBoxes = 1 =>
          (/\ selectedElement # "null"
           /\ selectionHighlight /\ highlightHost = hostElement)

\* An element is selected on a widget that was created after a destroy: the
\* editor is open and the one highlight box is in the current shadow root.
C35_Witness ==
    /\ hostElement = 2 /\ modal = "flex"
    /\ selectedElement \in PageElements
    /\ selectionHighlight /\ highlightHost = 2 /\ highlightBoxes = 1

\* --- C36

DescriptorReturned == callArg.fn = "descriptor" /\ callResult # NoCall

\* The k-th ancestor element of n (n itself for k = 0), "null" beyond the
\* root element.
RECURSIVE AncestorElement(_, _, _)
AncestorElement(doc, n, k) ==
    IF k = 0 \/ n = "null" THEN n
    ELSE AncestorElement(doc, parentElement(doc, n), k - 1)

Whitespace == {" ", "\t", "\n"}

\* The first class name of a class attribute value: its first maximal run of
\* characters that are not white space, <<>> when there is none.
FirstClassName(className) ==
    IF \A i \in 1..Len(className) : className[i] \in Whitespace THEN <<>>
    ELSE LET from == CHOOSE i \in 1..Len(className) :
                        /\ className[i] \notin Whitespace
                        /\ \A j \in 1..(i - 1) : className[j] \in Whitespace
             to == CHOOSE i \in from..Len(className) :
                        /\ \A j \in from..i : className[j] \notin Whitespace
                        /\ i = Len(className) \/ className[i + 1] \in Whitespace
         IN SubSeq(className, from, to)

\* The descriptor has 1 to 4 segments, root to leaf, ending with the clicked
\* element, starting at the first element with an id if there is one, with no
\* <body> or <html> above the clicked element, and each id-less segment
\* carries the first class name of its element.
DescriptorAsClaimed ==
    LET doc == callArg.doc
        parts == callResult.value.parts
        len == Len(parts)
        elementOf(k) == AncestorElement(doc, callArg.element, len - k)
    IN  /\ len \in 1..4
        /\ callResult.value.separator = " > "
        /\ \A k \in 1..len :
              /\ elementOf(k) # "null"
              /\ parts[k].tag = TagLower(doc[elementOf(k)].tagName)
              /\ IF doc[elementOf(k)].id # ""
                 THEN k = 1 /\ parts[k].id = doc[elementOf(k)].id /\ parts[k].cls = <<>>
                 ELSE /\ parts[k].id = ""
                      /\ parts[k].cls = FirstClassName(doc[elementOf(k)].className.value)
        /\ \A k \in 1..(len - 1) : elementOf(k) \notin {"body", "html"}
        /\ \/ len = 4
           \/ doc[elementOf(1)].id # ""
           \/ parentElement(doc, elementOf(1)) \in {"body", "html", "null"}

\* C36: the breadcrumb descriptor of a selection has 1 to 4 segments joined
\* by " > " from root to leaf with the clicked element last; the walk ends at
\* the first element with an id (segment tag#id, first), never goes on into
\* <body> or <html>, and an id-less segment is the tag name plus only the
\* first class name when there is one.
C36_Breadcrumb == DescriptorReturned => DescriptorAsClaimed

\* --- C37

\* An element without id, not <body>, that is detached or whose parent is
\* not an element.
Rootless(doc, n) ==
    /\ doc[n].id = "" /\ n # DocumentBody
    /\ \/ doc[n].parentNode = "null"
       \/ doc[doc[n].parentNode].nodeType # ELEMENT_NODE

\* C37 (as stated): getXPath returns the empty string for an id-less element
\* that is not <body> and is detached or has a parent that is not an element.
C37_RootlessEmpty ==
    (XPathReturned /\ Rootless(callArg.doc, callArg.element)) =>
        callResult.value = <<>>

\* C37 (amended): for such an element getXPath returns the lower-cased tag
\* name alone, and it returns the empty string for no element of a
\* consistent tree.
C37_RootlessTagName ==
    XPathReturned =>
        /\ callResult.value # <<>>
        /\ Rootless(callArg.doc, callArg.element) =>
              callResult.value = <<TagLower(callArg.doc[callArg.element].tagName)>>

\* getXPath was called on the id-less element inside a document fragment,
\* and on the id-less detached element.
C37_Witness ==
    /\ XPathReturned
    /\ callArg.element \in {"fx", "x"}
    /\ Rootless(callArg.doc, callArg.element)
    /\ callResult.value = <<TagLower(callArg.doc[callArg.element].tagName)>>

\* --- C38

\* n is an element of the document tree: its parent chain ends at the
\* document node.
RECURSIVE InDocument(_, _)
InDocument(doc, n) ==
    IF n = "null" THEN FALSE
    ELSE IF n = "document" THEN TRUE
    ELSE InDocument(doc, doc[n].parentNode)

DocumentElements(doc) == { n \in ElementNames : InDocument(doc, n) }

UniqueIds(doc) ==
    \A m, n \in DocumentElements(doc) :
        (doc[m].id # "" /\ doc[m].id = doc[n].id) => m = n

\* C38: in a document with unique element ids the address getXPath returned
\* for an element is the address of no other element of the document, and
\* computing it again on the unchanged tree gives the same address.
C38_AddressesDistinct ==
    (/\ XPathReturned
     /\ callArg.element \in DocumentElements(callArg.doc)
     /\ UniqueIds(callArg.doc)) =>
        /\ \A m \in DocumentElements(callArg.doc) \ {callArg.element} :
              getXPath(callArg.doc, m) # callResult.value
        /\ getXPath(callArg.doc, callArg.element) = callResult.value

\* The second of two id-less span siblings got an address, which differs
\* from its sibling's in the position only.
C38_Witness ==
    /\ XPathReturned /\ callArg.element = "s2"
    /\ callArg.doc["s1"].id = "" /\ callArg.doc["s2"].id = ""
    /\ callArg.doc["c"].id = "main"
    /\ callResult.value = IdPath("main") \o <<"/", "span", "[", "2", "]">>
    /\ getXPath(callArg.doc, "s1") = IdPath("main") \o <<"/", "span", "[", "1", "]">>

====
